---- MODULE Spec2Model ----
(***************************************************************************)
(* Request / retry / pagination engine of the GitHub REST client           *)
(* (src/src/github_api_client/client.py) with its error taxonomy           *)
(* (src/src/github_rest_api/exceptions.py).                                *)
(*                                                                         *)
(* A duration is an exact decimal [n, e] standing for n / 10^e seconds, so  *)
(* that a header such as "1.55" or "-.05" keeps its value; clock readings  *)
(* are counted in tenths of a second.  Header values are sequences of      *)
(* one-character strings; message texts are sequences of words.            *)
(***************************************************************************)
EXTENDS Integers, Sequences, FiniteSets, TLC

VARIABLES
    client,       \* "GitHub" (blocking) or "AsyncGitHub" (cooperative)
    auto_retry,   \* self._auto_retry
    max_retries,  \* self._max_retries
    op,           \* the entry point in progress: "none", "request", "paginate", "classify"
    pc,           \* position inside the entry point
    response,     \* the last response handed back by the transport
    retries,      \* the local retry counter of request() / paginate()
    wait_time,    \* the local wait_time, a duration [n, e]
    outcome,      \* what the call returned or raised
    attempts,     \* transport calls made since retries was last set to 0
    sleeps,       \* completed waits since retries was last set to 0
    json_calls,   \* calls of response.json() made on the last response
    server,       \* the listing held by the remote side: one item list per page
    per_page,     \* the per_page argument of paginate()
    params,       \* the query mapping sent with a page request
    page,         \* the local page counter of paginate()
    items,        \* the parsed page being yielded from
    idx,          \* how many items of `items` the consumer has taken
    yielded,      \* every item handed to the consumer, in order
    req_page,     \* the page number carried by the last transport request
    ok_fetches,   \* page requests answered with a status below 400
    next_calls,   \* next() calls the consumer has made on the generator
    shaped,       \* result of _is_rate_limit_error on `response` (classify)
    computed_wait, \* result of _get_retry_after on `response` (classify)
    clock,        \* the time.time() reading used for computed_wait
    parked,       \* the frame of the invocation that is not running now
    caller,       \* the method above the engine: an adapter or a model method
    answer,       \* what that method returned or raised
    sent,         \* the request that method handed to the engine
    payload,      \* the mapping given to from_dict
    built,        \* the models from_dict has built from payload, in order
    scope,        \* position of a with-statement on the client
    closed,       \* the transport of the client has been closed
    propagated,   \* the exception that left the with-statement
    environ,      \* what credential resolution finds: variables, gh, hosts.yml
    listed        \* the items issues.list() has looked at and passed on

vars == << client, auto_retry, max_retries, op, pc, response, retries,
           wait_time, outcome, attempts, sleeps, json_calls, server,
           per_page, params, page, items, idx, yielded, req_page,
           ok_fetches, next_calls, shaped, computed_wait, clock,
           parked, caller, answer, sent, payload, built,
           scope, closed, propagated, environ, listed >>

----------------------------------------------------------------------------
(* Bounds *)

MaxRetriesBound == 2
MaxPages == 2
MaxPageItems == 2

----------------------------------------------------------------------------
(* Program constants *)

DefaultWait == 60           \* seconds
MinResetWait == 1           \* second
PerPageCeiling == 100
SearchPerPage == 100

----------------------------------------------------------------------------
(* JSON values and Python values *)

None == [t |-> "None"]
JInt(n) == [t |-> "int", v |-> n]
JStr(words) == [t |-> "str", v |-> words]
JDict(f) == [t |-> "dict", v |-> f]
JList(s) == [t |-> "list", v |-> s]
NotJson == [t |-> "NotJSON"]

EmptyDict == JDict(<<>>)

Max(a, b) == IF a >= b THEN a ELSE b
Min(a, b) == IF a <= b THEN a ELSE b

----------------------------------------------------------------------------
(* Header values *)

Absent == [present |-> FALSE, value |-> <<>>]
Hdr(s) == [present |-> TRUE, value |-> s]

\* headers.get(name) is truthy: present and not the empty string
Truthy(h) == h.present /\ Len(h.value) > 0

Digits == {"0", "1", "2", "3", "4", "5", "6", "7", "8", "9"}

DigitVal(c) ==
    CASE c = "0" -> 0 [] c = "1" -> 1 [] c = "2" -> 2 [] c = "3" -> 3
      [] c = "4" -> 4 [] c = "5" -> 5 [] c = "6" -> 6 [] c = "7" -> 7
      [] c = "8" -> 8 [] c = "9" -> 9

AllDigits(s) == \A i \in 1..Len(s) : s[i] \in Digits

RECURSIVE DigitsValue(_)
DigitsValue(s) ==
    IF Len(s) = 0 THEN 0
    ELSE 10 * DigitsValue(SubSeq(s, 1, Len(s) - 1)) + DigitVal(s[Len(s)])

DotAt(s) == IF \E i \in 1..Len(s) : s[i] = "."
            THEN CHOOSE i \in 1..Len(s) : s[i] = "." /\ \A j \in 1..(i-1) : s[j] # "."
            ELSE 0

\* int(text): an optional sign followed by one or more digits
ParseInt(s) ==
    LET neg == Len(s) > 0 /\ s[1] = "-"
        body == IF neg THEN Tail(s) ELSE s
    IN  IF Len(body) > 0 /\ AllDigits(body)
        THEN [ok |-> TRUE, v |-> IF neg THEN 0 - DigitsValue(body) ELSE DigitsValue(body)]
        ELSE [ok |-> FALSE, v |-> 0]

\* the duration of t tenths of a second, the fraction without a final zero
Tenths(t) ==
    IF t % 10 = 0 THEN [n |-> t \div 10, e |-> 0] ELSE [n |-> t, e |-> 1]

\* float(text): an optional sign, digits with an optional fraction, or a
\* fraction alone; the value is n / 10^e with every digit of the text kept
\* but the zeros that end the fraction, and -0.0 is 0.0 to every comparison
ParseFloat(s) ==
    LET neg == Len(s) > 0 /\ s[1] = "-"
        body == IF neg THEN Tail(s) ELSE s
        d == DotAt(body)
        whole == IF d = 0 THEN body ELSE SubSeq(body, 1, d - 1)
        frac == IF d = 0 THEN <<>> ELSE SubSeq(body, d + 1, Len(body))
        wellFormed == /\ AllDigits(whole)
                      /\ AllDigits(frac)
                      /\ Len(whole) + Len(frac) > 0
        kept == { i \in 1..Len(frac) : frac[i] # "0" }
        last == IF kept = {} THEN 0
                ELSE CHOOSE i \in kept : \A j \in kept : j <= i
        digits == DigitsValue(whole \o SubSeq(frac, 1, last))
    IN  IF wellFormed
        THEN [ok |-> TRUE,
              v |-> [n |-> IF neg THEN 0 - digits ELSE digits, e |-> last]]
        ELSE [ok |-> FALSE, v |-> Tenths(0)]

----------------------------------------------------------------------------
(* Message texts *)

LowerWord(w) ==
    CASE w = "API" -> "api"
      [] w = "Rate" -> "rate"
      [] w = "Limit" -> "limit"
      [] w = "Abuse" -> "abuse"
      [] w = "Not" -> "not"
      [] w = "Found" -> "found"
      [] OTHER -> w

\* str.lower()
Lower(words) == [i \in 1..Len(words) |-> LowerWord(words[i])]

\* phrase in text
Contains(words, phrase) ==
    \E i \in 1..(Len(words) - Len(phrase) + 1) :
        SubSeq(words, i, i + Len(phrase) - 1) = phrase

RateLimitPhrase == <<"rate", "limit">>
AbusePhrase == <<"abuse">>

----------------------------------------------------------------------------
(* Responses of the transport *)

Body(text, json) == [text |-> text, json |-> json]

HtmlBody == Body(<<"<html>">>, NotJson)
EmptyBody == Body(<<>>, NotJson)
RateLimitBody ==
    Body(<<"{message:API rate limit exceeded}">>,
         JDict([message |-> JStr(<<"API", "rate", "limit", "exceeded">>)]))
UpperRateLimitBody ==
    Body(<<"{message:API Rate Limit}">>,
         JDict([message |-> JStr(<<"API", "Rate", "Limit">>)]))
AbuseBody ==
    Body(<<"{message:Abuse detected}">>,
         JDict([message |-> JStr(<<"Abuse", "detected">>)]))
NotFoundBody ==
    Body(<<"{message:Not Found}">>,
         JDict([message |-> JStr(<<"Not", "Found">>)]))
NoMessageBody ==
    Body(<<"{documentation_url:docs}">>,
         JDict([documentation_url |-> JStr(<<"docs">>)]))
NullMessageBody ==
    Body(<<"{message:null}">>, JDict([message |-> None]))
ListBody ==
    Body(<<"[rate limit]">>, JList(<< JStr(<<"rate", "limit">>) >>))
UserBody ==
    Body(<<"{login:octocat,id:1}">>,
         JDict([login |-> JStr(<<"octocat">>), id |-> JInt(1)]))

Bodies == { HtmlBody, EmptyBody, RateLimitBody, UpperRateLimitBody, AbuseBody,
            NotFoundBody, NoMessageBody, NullMessageBody, ListBody, UserBody }

Statuses == {200, 201, 204, 304, 401, 403, 404, 422, 429, 500}

HeaderStrings == { <<>>, <<"0">>, <<"1">>, <<"5">>, <<"1", ".", "5">>,
                   <<"1", ".", "5", "5">>, <<"-", ".", "0", "5">>,
                   <<"-", "1">>, <<"a">> }
HeaderValues == {Absent} \cup { Hdr(s) : s \in HeaderStrings }
RemainingValues == { Absent, Hdr(<<"0">>), Hdr(<<"1">>) }

Response(status, remaining, retry_after, reset, body) ==
    [ status_code |-> status,
      remaining |-> remaining,       \* X-RateLimit-Remaining
      retry_after |-> retry_after,   \* Retry-After
      reset |-> reset,               \* X-RateLimit-Reset
      body |-> body ]

Responses ==
    { Response(s, rem, ra, rs, b) :
        s \in Statuses, rem \in RemainingValues, ra \in HeaderValues,
        rs \in HeaderValues, b \in Bodies }

NoResponse == Response(0, Absent, Absent, Absent, EmptyBody)

\* time.time(), in tenths of a second
Nows == {0, 45, 100}

----------------------------------------------------------------------------
(* Outcomes of a call *)

Pending == [kind |-> "pending"]
Return(v) == [kind |-> "return", value |-> v]
Raise(e) == [kind |-> "raise", error |-> e]

ValueError == [type |-> "ValueError"]
JSONDecodeError == [type |-> "JSONDecodeError"]

\* bool(value) of a JSON value
PyTruthy(j) ==
    CASE j.t = "None" -> FALSE
      [] j.t = "bool" -> j.v
      [] j.t = "int" -> j.v # 0
      [] j.t = "dict" -> DOMAIN j.v # {}
      [] j.t \in {"list", "str"} -> Len(j.v) > 0
      [] OTHER -> TRUE

\* GitHubError.__init__ and the subclasses that inherit it: a falsy
\* response_data (None, {}, [], "", 0, False) is replaced by {}
GitHubError(type, message, status_code, response_data) ==
    [ type |-> type,
      message |-> message,
      status_code |-> status_code,
      response_data |-> IF PyTruthy(response_data) THEN response_data ELSE EmptyDict ]

\* RateLimitError.__init__
RateLimitError(message, status_code, response_data, reset_at) ==
    [ type |-> "RateLimitError",
      message |-> message,
      status_code |-> status_code,
      response_data |-> IF PyTruthy(response_data) THEN response_data ELSE EmptyDict,
      reset_at |-> reset_at ]

----------------------------------------------------------------------------
(* Pure helpers of the engine *)

IsDict(j) == j.t = "dict"
HasKey(j, k) == k \in DOMAIN j.v

\* a variant whose message is looked up without the response text as default
ErrorPayloadNoDefault(r) ==
    LET j == r.body.json
        text == JStr(r.body.text)
    IN  IF IsDict(j)
        THEN [ data |-> j,
               message |-> IF HasKey(j, "message") THEN j.v["message"] ELSE None ]
        ELSE [ data |-> EmptyDict, message |-> text ]

\* the try block of _handle_error_response: the (data, message) it ends with
ErrorPayload(r) ==
    LET j == r.body.json
        text == JStr(r.body.text)
    IN  IF IsDict(j)
        THEN [ data |-> j,
               message |-> IF HasKey(j, "message") THEN j.v["message"] ELSE text ]
        ELSE [ data |-> EmptyDict, message |-> text ]

\* the exception _handle_error_response raises for r
_handle_error_response(r) ==
    LET p == ErrorPayload(r)
        s == r.status_code
    IN  CASE s = 401 -> GitHubError("AuthenticationError", p.message, s, p.data)
          [] s = 404 -> GitHubError("NotFoundError", p.message, s, p.data)
          [] s \in {403, 429} ->
                IF Truthy(r.reset)
                THEN IF ParseInt(r.reset.value).ok
                     THEN RateLimitError(p.message, s, p.data,
                                         JInt(ParseInt(r.reset.value).v))
                     ELSE ValueError
                ELSE RateLimitError(p.message, s, p.data, None)
          [] s = 422 -> GitHubError("ValidationError", p.message, s, p.data)
          [] OTHER -> GitHubError("GitHubError", p.message, s, p.data)

\* _is_rate_limit_error
_is_rate_limit_error(r) ==
    LET j == r.body.json
        msg == IF HasKey(j, "message") THEN j.v["message"] ELSE JStr(<<>>)
    IN  IF r.status_code \notin {403, 429} THEN FALSE
        ELSE IF r.remaining = Hdr(<<"0">>) THEN TRUE
        ELSE IF IsDict(j) /\ msg.t = "str"
             THEN \/ Contains(Lower(msg.v), RateLimitPhrase)
                  \/ Contains(Lower(msg.v), AbusePhrase)
             ELSE r.status_code = 429

\* a variant that consults X-RateLimit-Reset before Retry-After
_get_retry_after_reset_first(r, now) ==
    IF Truthy(r.reset) /\ ParseInt(r.reset.value).ok
    THEN Tenths(Max(10 * ParseInt(r.reset.value).v - now, 10 * MinResetWait))
    ELSE IF Truthy(r.retry_after) /\ ParseFloat(r.retry_after.value).ok
         THEN ParseFloat(r.retry_after.value).v
         ELSE Tenths(10 * DefaultWait)

\* _get_retry_after, with time.time() = now
_get_retry_after(r, now) ==
    IF Truthy(r.retry_after) /\ ParseFloat(r.retry_after.value).ok
    THEN ParseFloat(r.retry_after.value).v
    ELSE IF Truthy(r.reset) /\ ParseInt(r.reset.value).ok
         THEN Tenths(Max(10 * ParseInt(r.reset.value).v - now, 10 * MinResetWait))
         ELSE Tenths(10 * DefaultWait)

\* response.json()
ResponseJson(r) ==
    IF r.body.json = NotJson THEN Raise(JSONDecodeError) ELSE Return(r.body.json)

\* how many times _is_rate_limit_error calls response.json()
IsRateLimitJsonCalls(r) ==
    IF r.status_code \in {403, 429} /\ r.remaining # Hdr(<<"0">>) THEN 1 ELSE 0

\* time.sleep raises ValueError on a negative duration; asyncio.sleep returns at once
SleepRaises(c, w) == c = "GitHub" /\ w.n < 0

----------------------------------------------------------------------------
(* Inputs of the engine *)

Clients == {"GitHub", "AsyncGitHub"}

RequestResponses ==
    { Response(s, rem, ra, rs, b) :
        s \in Statuses,
        rem \in {Absent, Hdr(<<"0">>)},
        ra \in {Absent, Hdr(<<"1">>), Hdr(<<"-", "1">>)},
        rs \in {Absent, Hdr(<<"5">>), Hdr(<<"a">>)},
        b \in {RateLimitBody, NotFoundBody, HtmlBody, UserBody} }

Item(n) == JDict([id |-> JInt(n)])

RECURSIVE SumTo(_, _)
SumTo(lens, p) == IF p = 0 THEN 0 ELSE lens[p] + SumTo(lens, p - 1)

\* a listing whose pages have the given lengths; items are numbered 1, 2, ...
ServerOf(lens) ==
    [ p \in 1..Len(lens) |->
        [ i \in 1..lens[p] |-> Item(SumTo(lens, p - 1) + i) ] ]

Servers == { ServerOf(lens) : lens \in [1..MaxPages -> 0..MaxPageItems] }

PerPages == {30, 150}

\* the page the remote side answers for page number p
ServerPage(srv, p) == IF p \in 1..Len(srv) THEN srv[p] ELSE <<>>

PageOk(srv, p) ==
    Response(200, Absent, Absent, Absent, Body(<<"[items]">>, JList(ServerPage(srv, p))))

NoContent == Response(204, Absent, Absent, Absent, EmptyBody)

PageErrors ==
    { Response(429, Absent, Hdr(<<"1">>), Absent, RateLimitBody),
      Response(429, Absent, Hdr(<<"-", "1">>), Absent, RateLimitBody),
      Response(403, Hdr(<<"0">>), Absent, Hdr(<<"5">>), RateLimitBody),
      Response(403, Absent, Absent, Hdr(<<"a">>), RateLimitBody),
      Response(404, Absent, Absent, Absent, NotFoundBody),
      Response(500, Absent, Absent, Absent, HtmlBody) }

PageResponses(srv, p) == PageErrors \cup {PageOk(srv, p), NoContent}

NoParams == [per_page |-> 0, page |-> 0]
StopIteration == [kind |-> "stop"]

----------------------------------------------------------------------------
(* State outside the frame of one engine call *)

\* the locals of an invocation that has not started
IdleFrame ==
    [ op |-> "none", pc |-> "idle", response |-> NoResponse, retries |-> 0,
      wait_time |-> Tenths(0), outcome |-> Pending, attempts |-> 0, sleeps |-> 0,
      json_calls |-> 0, server |-> <<>>, per_page |-> 0, params |-> NoParams,
      page |-> 0, items |-> <<>>, idx |-> 0, yielded |-> <<>>, req_page |-> 0,
      ok_fetches |-> 0, next_calls |-> 0 ]

NoRequest == [method |-> "none", path |-> <<>>, json |-> None]

\* before credential resolution has looked at anything
NoEnviron ==
    [ GH_TOKEN |-> Absent, GITHUB_TOKEN |-> Absent,
      gh |-> [kind |-> "FileNotFoundError", returncode |-> 0, stdout |-> <<>>],
      HAS_YAML |-> FALSE,
      hosts |-> [kind |-> "missing", value |-> None] ]

\* issues.list() has looked at no item of its stream and passed none on
NoneListed == [seen |-> 0, out |-> <<>>]

\* no second invocation, no method above the engine, no model built, no
\* with-statement entered, the transport open
OuterInit ==
    /\ parked = IdleFrame
    /\ caller = [cls |-> "none"]
    /\ answer = Pending
    /\ sent = NoRequest
    /\ payload = None
    /\ built = <<>>
    /\ scope = "none"
    /\ closed = FALSE
    /\ propagated = None
    /\ environ = NoEnviron
    /\ listed = NoneListed

outer == << parked, caller, answer, sent, payload, built, scope, closed,
            propagated, environ, listed >>

----------------------------------------------------------------------------
(* State after construction of the client *)

Init ==
    /\ client \in Clients
    /\ auto_retry \in BOOLEAN
    /\ max_retries \in 0..MaxRetriesBound
    /\ op = "none"
    /\ pc = "idle"
    /\ response = NoResponse
    /\ retries = 0
    /\ wait_time = Tenths(0)
    /\ outcome = Pending
    /\ attempts = 0
    /\ sleeps = 0
    /\ json_calls = 0
    /\ server = <<>>
    /\ per_page = 0
    /\ params = NoParams
    /\ page = 0
    /\ items = <<>>
    /\ idx = 0
    /\ yielded = <<>>
    /\ req_page = 0
    /\ ok_fetches = 0
    /\ next_calls = 0
    /\ shaped = FALSE
    /\ computed_wait = Tenths(0)
    /\ clock = 0
    /\ OuterInit

config == << client, auto_retry, max_retries >>
listing == << server, per_page, params, page, items, idx, yielded, req_page,
             ok_fetches, next_calls >>
classified == << shaped, computed_wait, clock >>

----------------------------------------------------------------------------
(* request() *)

\* a variant whose retry count outlives the call, as an instance field would
CallRequestKeepsCount ==
    /\ pc = "idle"
    /\ op' = "request"
    /\ pc' = "send"
    /\ retries' = retries
    /\ UNCHANGED << outer, config, response, wait_time, outcome, attempts, sleeps,
                    json_calls, listing, classified >>

\* request() is entered: retries = 0
CallRequest ==
    /\ pc = "idle"
    /\ op' = "request"
    /\ pc' = "send"
    /\ retries' = 0
    /\ UNCHANGED << outer, config, response, wait_time, outcome, attempts, sleeps,
                    json_calls, listing, classified >>

\* a variant that parses the body before it looks at the status
SuccessOutcomeParseFirst(r) ==
    IF ResponseJson(r).kind = "raise" THEN ResponseJson(r)
    ELSE IF r.status_code = 204 THEN Return(None) ELSE ResponseJson(r)

\* the end of request() for a status below 400: None on 204, else the parsed body
SuccessOutcome(r) ==
    IF r.status_code = 204 THEN Return(None) ELSE ResponseJson(r)

\* response.json() calls made on that path
SuccessJsonCalls(r) == IF r.status_code = 204 THEN 0 ELSE 1

\* the branch taken on an error response: wait, or raise
ShouldRetry(r) ==
    auto_retry /\ _is_rate_limit_error(r) /\ retries < max_retries

\* a variant that reports an exhausted retry budget with an error of its own
RequestAttemptBudgetError(r) ==
    /\ op = "request"
    /\ pc = "send"
    /\ response' = r
    /\ attempts' = attempts + 1
    /\ IF r.status_code >= 400
       THEN IF ShouldRetry(r)
            THEN /\ \E now \in Nows : wait_time' = _get_retry_after(r, now)
                 /\ json_calls' = IsRateLimitJsonCalls(r)
                 /\ pc' = "sleep"
                 /\ UNCHANGED outcome
            ELSE /\ outcome' =
                      IF auto_retry /\ _is_rate_limit_error(r) /\ retries > 0
                      THEN Raise(RateLimitError(JStr(<<"retries", "exhausted">>),
                                                r.status_code, EmptyDict, None))
                      ELSE Raise(_handle_error_response(r))
                 /\ json_calls' = (IF auto_retry THEN IsRateLimitJsonCalls(r) ELSE 0) + 1
                 /\ pc' = "done"
                 /\ UNCHANGED wait_time
       ELSE /\ outcome' = SuccessOutcome(r)
            /\ json_calls' = SuccessJsonCalls(r)
            /\ pc' = "done"
            /\ UNCHANGED wait_time
    /\ UNCHANGED << outer, config, op, retries, sleeps, listing, classified >>

\* one pass of the loop body of request(): the transport call and what follows it
RequestAttempt(r) ==
    /\ op = "request"
    /\ pc = "send"
    /\ response' = r
    /\ attempts' = attempts + 1
    /\ IF r.status_code >= 400
       THEN IF ShouldRetry(r)
            THEN /\ \E now \in Nows : wait_time' = _get_retry_after(r, now)
                 /\ json_calls' = IsRateLimitJsonCalls(r)
                 /\ pc' = "sleep"
                 /\ UNCHANGED outcome
            ELSE /\ outcome' = Raise(_handle_error_response(r))
                 /\ json_calls' = (IF auto_retry THEN IsRateLimitJsonCalls(r) ELSE 0) + 1
                 /\ pc' = "done"
                 /\ UNCHANGED wait_time
       ELSE /\ outcome' = SuccessOutcome(r)
            /\ json_calls' = SuccessJsonCalls(r)
            /\ pc' = "done"
            /\ UNCHANGED wait_time
    /\ UNCHANGED << outer, config, op, retries, sleeps, listing, classified >>

\* the wait of request() and the increment that follows it
RequestSleep ==
    /\ op = "request"
    /\ pc = "sleep"
    /\ IF SleepRaises(client, wait_time)
       THEN /\ outcome' = Raise(ValueError)
            /\ pc' = "done"
            /\ UNCHANGED << retries, sleeps >>
       ELSE /\ retries' = retries + 1
            /\ sleeps' = sleeps + 1
            /\ pc' = "send"
            /\ UNCHANGED outcome
    /\ UNCHANGED << outer, config, op, response, wait_time, attempts, json_calls,
                    listing, classified >>

----------------------------------------------------------------------------
(* paginate(): a generator driven by its consumer *)

\* a variant that runs the body up to the first transport call at call time
CallPaginateEager(pp, srv) ==
    /\ pc = "idle"
    /\ op' = "paginate"
    /\ pc' = "send"
    /\ per_page' = pp
    /\ server' = srv
    /\ params' = [per_page |-> Min(pp, PerPageCeiling), page |-> 1]
    /\ page' = 1
    /\ retries' = 0
    /\ UNCHANGED << outer, config, response, wait_time, outcome, attempts,
                    sleeps, json_calls, items, idx, yielded,
                    req_page, ok_fetches, next_calls, classified >>

\* paginate(...) is called: the generator object exists, its body has not run
CallPaginate(pp, srv) ==
    /\ pc = "idle"
    /\ op' = "paginate"
    /\ pc' = "created"
    /\ per_page' = pp
    /\ server' = srv
    /\ UNCHANGED << outer, config, response, retries, wait_time, outcome, attempts,
                    sleeps, json_calls, params, page, items, idx, yielded,
                    req_page, ok_fetches, next_calls, classified >>

\* first next(): the body runs up to the first transport call
ConsumerNextStart ==
    /\ op = "paginate"
    /\ pc = "created"
    /\ params' = [per_page |-> Min(per_page, PerPageCeiling), page |-> 1]
    /\ page' = 1
    /\ retries' = 0
    /\ next_calls' = next_calls + 1
    /\ pc' = "send"
    /\ UNCHANGED << outer, config, op, response, wait_time, outcome, attempts, sleeps,
                    json_calls, server, per_page, items, idx, yielded,
                    req_page, ok_fetches, classified >>

\* next() while the current page still has items: the next one is yielded
ConsumerNextItem ==
    /\ op = "paginate"
    /\ pc = "suspended"
    /\ idx < Len(items)
    /\ idx' = idx + 1
    /\ yielded' = Append(yielded, items[idx + 1])
    /\ next_calls' = next_calls + 1
    /\ UNCHANGED << outer, config, op, pc, response, retries, wait_time, outcome,
                    attempts, sleeps, json_calls, server, per_page, params,
                    page, items, req_page, ok_fetches, classified >>

\* next() after the last item of the page: page += 1 and the outer loop restarts
ConsumerNextPage ==
    /\ op = "paginate"
    /\ pc = "suspended"
    /\ idx = Len(items)
    /\ page' = page + 1
    /\ params' = [params EXCEPT !.page = page + 1]
    /\ retries' = 0
    /\ attempts' = 0
    /\ sleeps' = 0
    /\ next_calls' = next_calls + 1
    /\ pc' = "send"
    /\ UNCHANGED << outer, config, op, response, wait_time, outcome,
                    json_calls, server, per_page, items, idx, yielded,
                    req_page, ok_fetches, classified >>

\* the consumer abandons the generator
ConsumerStop ==
    /\ op = "paginate"
    /\ pc \in {"created", "suspended"}
    /\ pc' = "closed"
    /\ UNCHANGED << outer, config, op, response, retries, wait_time, outcome, attempts,
                    sleeps, json_calls, listing, classified >>

\* a variant that ends the listing at the first page that is not full
NotItemsShortPage(its) == Len(its) < PerPageCeiling

\* `not items` for a parsed page
NotItems(its) == Len(its) = 0

\* one pass of the inner loop of paginate(), and on success the code up to
\* the first yield of the page or the end of the generator
PageAttempt(r) ==
    /\ op = "paginate"
    /\ pc = "send"
    /\ response' = r
    /\ attempts' = attempts + 1
    /\ req_page' = params.page
    /\ IF r.status_code >= 400
       THEN /\ IF ShouldRetry(r)
               THEN /\ \E now \in Nows : wait_time' = _get_retry_after(r, now)
                    /\ json_calls' = IsRateLimitJsonCalls(r)
                    /\ pc' = "sleep"
                    /\ UNCHANGED outcome
               ELSE /\ outcome' = Raise(_handle_error_response(r))
                    /\ json_calls' = (IF auto_retry THEN IsRateLimitJsonCalls(r) ELSE 0) + 1
                    /\ pc' = "done"
                    /\ UNCHANGED wait_time
            /\ UNCHANGED << items, idx, yielded, ok_fetches >>
       ELSE /\ ok_fetches' = ok_fetches + 1
            /\ json_calls' = 1
            /\ UNCHANGED wait_time
            /\ IF ResponseJson(r).kind = "raise"
               THEN /\ outcome' = ResponseJson(r)
                    /\ pc' = "done"
                    /\ UNCHANGED << items, idx, yielded >>
               ELSE IF NotItems(ResponseJson(r).value.v)
                    THEN /\ items' = <<>>
                         /\ outcome' = StopIteration
                         /\ pc' = "done"
                         /\ UNCHANGED << idx, yielded >>
                    ELSE /\ items' = ResponseJson(r).value.v
                         /\ idx' = 1
                         /\ yielded' = Append(yielded, ResponseJson(r).value.v[1])
                         /\ pc' = "suspended"
                         /\ UNCHANGED outcome
    /\ UNCHANGED << outer, config, op, retries, sleeps, server, per_page, params, page,
                    next_calls, classified >>

\* a variant whose retry moves on to the next page
PageSleepAdvances ==
    /\ op = "paginate"
    /\ pc = "sleep"
    /\ IF SleepRaises(client, wait_time)
       THEN /\ outcome' = Raise(ValueError)
            /\ pc' = "done"
            /\ UNCHANGED << retries, sleeps, page, params >>
       ELSE /\ retries' = retries + 1
            /\ sleeps' = sleeps + 1
            /\ page' = page + 1
            /\ params' = [params EXCEPT !.page = page + 1]
            /\ pc' = "send"
            /\ UNCHANGED outcome
    /\ UNCHANGED << outer, config, op, response, wait_time, attempts, json_calls,
                    server, per_page, items, idx, yielded, req_page,
                    ok_fetches, next_calls, classified >>

\* the wait of paginate() and the increment that follows it
PageSleep ==
    /\ op = "paginate"
    /\ pc = "sleep"
    /\ IF SleepRaises(client, wait_time)
       THEN /\ outcome' = Raise(ValueError)
            /\ pc' = "done"
            /\ UNCHANGED << retries, sleeps >>
       ELSE /\ retries' = retries + 1
            /\ sleeps' = sleeps + 1
            /\ pc' = "send"
            /\ UNCHANGED outcome
    /\ UNCHANGED << outer, config, op, response, wait_time, attempts, json_calls,
                    listing, classified >>

----------------------------------------------------------------------------
(* The pure helpers applied to one response *)

\* _is_rate_limit_error, _get_retry_after and, for an error status,
\* _handle_error_response applied to the response at hand
Classify ==
    /\ op = "classify"
    /\ pc = "idle"
    /\ pc' = "done"
    /\ shaped' = _is_rate_limit_error(response)
    /\ computed_wait' = _get_retry_after(response, clock)
    /\ outcome' = IF response.status_code >= 400
                  THEN Raise(_handle_error_response(response))
                  ELSE Pending
    /\ UNCHANGED << outer, config, op, response, clock, retries, wait_time, attempts,
                    sleeps, json_calls, listing >>

----------------------------------------------------------------------------
(* Specifications *)

Next ==
    \/ CallRequest
    \/ \E r \in RequestResponses : RequestAttempt(r)
    \/ RequestSleep
    \/ \E pp \in PerPages, srv \in Servers : CallPaginate(pp, srv)
    \/ ConsumerNextStart
    \/ ConsumerNextItem
    \/ ConsumerNextPage
    \/ ConsumerStop
    \/ \E r \in PageResponses(server, params.page) : PageAttempt(r)
    \/ PageSleep

Spec == Init /\ [][Next]_vars

\* every response and clock reading the helpers may be handed
InitClassify ==
    /\ client = "GitHub"
    /\ auto_retry = FALSE
    /\ max_retries = 0
    /\ op = "classify"
    /\ pc = "idle"
    /\ response \in Responses
    /\ clock \in Nows
    /\ retries = 0
    /\ wait_time = Tenths(0)
    /\ outcome = Pending
    /\ attempts = 0
    /\ sleeps = 0
    /\ json_calls = 0
    /\ server = <<>>
    /\ per_page = 0
    /\ params = NoParams
    /\ page = 0
    /\ items = <<>>
    /\ idx = 0
    /\ yielded = <<>>
    /\ req_page = 0
    /\ ok_fetches = 0
    /\ next_calls = 0
    /\ shaped = FALSE
    /\ computed_wait = Tenths(0)
    /\ OuterInit

NextClassify == Classify

SpecClassify == InitClassify /\ [][NextClassify]_vars

----------------------------------------------------------------------------
(* Vocabulary of the properties *)

\* the error kind the taxonomy gives a status code
KindByStatus(st) ==
    CASE st = 401 -> "AuthenticationError"
      [] st = 404 -> "NotFoundError"
      [] st \in {403, 429} -> "RateLimitError"
      [] st = 422 -> "ValidationError"
      [] OTHER -> "GitHubError"

\* the error message has a rate-limit or abuse phrase, in any letter case
MessageHasPhrase(r) ==
    LET m == ErrorPayload(r).message
    IN  /\ m.t = "str"
        /\ \/ Contains(Lower(m.v), RateLimitPhrase)
           \/ Contains(Lower(m.v), AbusePhrase)

\* rate-limit-shaped as the specification words it
RateLimitShaped(r) ==
    /\ r.status_code \in {403, 429}
    /\ \/ r.remaining = Hdr(<<"0">>)
       \/ r.status_code = 429
       \/ MessageHasPhrase(r)

\* the error branch of the last attempt ended the call (it did not choose to wait)
RaisedForResponse ==
    /\ pc = "done"
    /\ response.status_code >= 400
    /\ ~ShouldRetry(response)

IsRaiseOf(o, type) == o.kind = "raise" /\ o.error.type = type

\* what request() without auto_retry answers when the transport hands it r
FirstAttemptOutcome(r) ==
    IF r.status_code >= 400 THEN Raise(_handle_error_response(r))
    ELSE IF r.status_code = 204 THEN Return(None)
    ELSE IF r.body.json = NotJson THEN Raise(JSONDecodeError)
    ELSE Return(r.body.json)

----------------------------------------------------------------------------
(* Properties *)

\* C1: every error response that is not retried makes request() raise the
\* error kind its status code selects, carrying that status code and the
\* response's payload, whatever the headers and the body are.
C1_ErrorKindByStatus ==
    (op = "request" /\ RaisedForResponse) =>
        /\ IsRaiseOf(outcome, KindByStatus(response.status_code))
        /\ outcome.error.status_code = response.status_code
        /\ outcome.error.response_data = ErrorPayload(response).data

\* C2: with auto_retry on, request() makes at most max_retries + 1 transport
\* calls; when every response is rate-limit-shaped it ends after exactly
\* max_retries + 1 calls and max_retries waits by raising RateLimitError.
C2_RetryBudget ==
    (op = "request" /\ auto_retry) =>
        /\ attempts <= max_retries + 1
        /\ (pc = "done" /\ RateLimitShaped(response)) =>
              /\ attempts = max_retries + 1
              /\ sleeps = max_retries
              /\ IsRaiseOf(outcome, "RateLimitError")

\* C5: _is_rate_limit_error answers true exactly for a 403 or 429 whose
\* remaining-quota header reads "0", or whose status is 429, or whose
\* message has a rate-limit or abuse phrase; so every 429 is rate-limit-shaped.
C5_RateLimitShape ==
    (op = "classify" /\ pc = "done") => (shaped = RateLimitShaped(response))

\* C6: the wait is the Retry-After header when it parses as a number;
\* failing that max(T - now, 1 s) when X-RateLimit-Reset parses as an
\* integer T; failing that 60 s.  Nothing is raised on a header that does
\* not parse.
C6_WaitPriority ==
    (op = "classify" /\ pc = "done") =>
        LET ra == response.retry_after
            rs == response.reset
            raOk == ra.present /\ ParseFloat(ra.value).ok
            rsOk == rs.present /\ ParseInt(rs.value).ok
            \* a wait on the clock's grid, in tenths of a second
            tenths == computed_wait.n * 10^(1 - computed_wait.e)
        IN  /\ raOk => computed_wait = ParseFloat(ra.value).v
            /\ (~raOk /\ rsOk) =>
                   /\ computed_wait.e <= 1
                   /\ tenths >= 10
                   /\ tenths >= 10 * ParseInt(rs.value).v - clock
                   /\ tenths \in {10, 10 * ParseInt(rs.value).v - clock}
            /\ (~raOk /\ ~rsOk) => computed_wait = [n |-> 60, e |-> 0]

\* C6 witness: both headers parse and the Retry-After value, not the reset
\* time, is the wait
C6_Witness ==
    /\ op = "classify" /\ pc = "done"
    /\ response.retry_after = Hdr(<<"1", ".", "5">>)
    /\ response.reset = Hdr(<<"5">>)
    /\ clock = 0
    /\ computed_wait = [n |-> 15, e |-> 1]

\* C7: request() waits only when auto_retry is on, the response is
\* rate-limit-shaped and the retry count is below max_retries; any other
\* error response ends the call at once with the classified error, no wait
\* and no further transport call.
C7_RetryOnlyWhenAllThree ==
    [][ /\ (op = "request" /\ attempts' = attempts + 1
               /\ response'.status_code >= 400) =>
              LET allThree == /\ auto_retry
                              /\ RateLimitShaped(response')
                              /\ retries < max_retries
              IN  /\ pc' = "sleep" => allThree
                  /\ ~allThree =>
                        /\ pc' = "done"
                        /\ IsRaiseOf(outcome', KindByStatus(response'.status_code))
                        /\ sleeps' = sleeps
        /\ (op = "request" /\ pc = "done") =>
              (attempts' = attempts /\ sleeps' = sleeps)
      ]_vars

\* C8: a call that ends after one or more waits returns or raises exactly
\* what a first attempt answered with that last response returns or raises;
\* on an exhausted budget that is the error a client without auto_retry
\* raises for the response.
C8_RetriesTransparent ==
    (op = "request" /\ pc = "done" /\ sleeps >= 1
        /\ ~(response.status_code >= 400 /\ ShouldRetry(response))) =>
        outcome = FirstAttemptOutcome(response)

\* C8 witness: a retried call whose budget ran out on a rate-limit response
C8_Witness ==
    /\ op = "request" /\ pc = "done"
    /\ max_retries = 2 /\ sleeps = 2 /\ attempts = 3
    /\ response.status_code = 429
    /\ IsRaiseOf(outcome, "RateLimitError")
    /\ outcome.error.reset_at = JInt(5)

\* C9: in request() a 204 yields None without a call of response.json();
\* any other status below 400 yields what response.json() yields.
C9_NoContentIsNone ==
    (op = "request" /\ pc = "done" /\ response.status_code < 400) =>
        IF response.status_code = 204
        THEN outcome = Return(None) /\ json_calls = 0
        ELSE /\ json_calls = 1
             /\ outcome = IF response.body.json = NotJson
                          THEN Raise(JSONDecodeError)
                          ELSE Return(response.body.json)

\* C9 witness: a 204 whose body is no JSON text ended the call with None
C9_Witness ==
    /\ op = "request" /\ pc = "done"
    /\ response.status_code = 204
    /\ response.body = HtmlBody
    /\ outcome = Return(None)

\* the number of leading non-empty pages of a listing
LeadingPages(srv) ==
    CHOOSE k \in 0..Len(srv) :
        /\ \A p \in 1..k : Len(srv[p]) > 0
        /\ k = Len(srv) \/ Len(srv[k + 1]) = 0

RECURSIVE ConcatPages(_, _)
ConcatPages(srv, k) == IF k = 0 THEN <<>> ELSE ConcatPages(srv, k - 1) \o srv[k]

IsPrefix(a, b) == Len(a) <= Len(b) /\ SubSeq(b, 1, Len(a)) = a

\* C3: a fully consumed listing is the concatenation, in order, of pages
\* 1..k where page k+1 is the first empty one; it took k+1 successful page
\* fetches and no page beyond k+1 is ever requested.
C3_PaginateConcatenation ==
    op = "paginate" =>
        /\ req_page <= LeadingPages(server) + 1
        /\ (pc = "done" /\ outcome = StopIteration) =>
              /\ yielded = ConcatPages(server, LeadingPages(server))
              /\ ok_fetches = LeadingPages(server) + 1
              /\ req_page = LeadingPages(server) + 1

\* C3 witness: pages [1, 2], [3], [] were listed with three fetches
C3_Witness ==
    /\ op = "paginate" /\ pc = "done" /\ outcome = StopIteration
    /\ yielded = << Item(1), Item(2), Item(3) >>
    /\ Len(server[1]) = 2
    /\ ok_fetches = 3

\* C4: the page counter starts at 1, a retry re-requests the same page,
\* the counter grows by one only after a successfully fetched non-empty
\* page, and the yielded items only ever grow by the next item of the listing.
C4_RetryKeepsPage ==
    [][ op' = "paginate" =>
          /\ (page = 0 /\ page' # 0) => page' = 1
          /\ pc = "sleep" =>
                (page' = page /\ params'.page = params.page /\ yielded' = yielded)
          /\ attempts' = attempts + 1 => (req_page' = page /\ page' = page)
          /\ (page >= 1 /\ page' # page) =>
                /\ page' = page + 1
                /\ response.status_code < 400
                /\ req_page = page
                /\ Len(items) > 0
          /\ IsPrefix(yielded, yielded')
          /\ Len(yielded') <= Len(yielded) + 1
          /\ IsPrefix(yielded', ConcatPages(server', Len(server')))
      ]_vars

\* C4 witness: page 2 was fetched after a wait and its first item followed
\* the items of page 1
C4_Witness ==
    /\ op = "paginate" /\ auto_retry
    /\ pc = "suspended" /\ page = 2 /\ req_page = 2
    /\ sleeps >= 1
    /\ Len(yielded) = Len(server[1]) + 1

RECURSIVE CountTo(_, _)
CountTo(srv, p) == IF p <= 0 THEN 0 ELSE Len(srv[p]) + CountTo(srv, p - 1)

\* the page that holds the n-th item of a listing, 0 for n = 0
PageOfItem(srv, n) ==
    IF n = 0 THEN 0
    ELSE CHOOSE p \in 1..Len(srv) : CountTo(srv, p - 1) < n /\ n <= CountTo(srv, p)

\* C10: nothing is requested before the first next(); page p is requested
\* only when the consumer has taken every item of the pages before it and
\* has asked for one more; a consumer that stops after n items leaves the
\* last request at the page holding item n.
C10_Lazy ==
    op = "paginate" =>
        /\ next_calls = 0 => (attempts = 0 /\ req_page = 0 /\ ok_fetches = 0)
        /\ Len(yielded) <= next_calls
        /\ req_page >= 1 =>
              /\ Len(yielded) >= CountTo(server, req_page - 1)
              /\ next_calls >= CountTo(server, req_page - 1) + 1
        /\ pc = "closed" => req_page = PageOfItem(server, Len(yielded))

\* C10 witness: the consumer stopped after the last item of page 1 and
\* page 2, which has items, was never requested
C10_Witness ==
    /\ op = "paginate" /\ pc = "closed"
    /\ Len(server[1]) = 2 /\ Len(server[2]) > 0
    /\ Len(yielded) = 2
    /\ req_page = 1

----------------------------------------------------------------------------
(* The two clients side by side *)

PeerOf(c) == IF c = "GitHub" THEN "AsyncGitHub" ELSE "GitHub"

\* the step a wait of wait_time takes in client c: the call ends with the
\* error of the sleep function, or the retry count grows and the request
\* is sent again
WaitStepOf(c) ==
    IF SleepRaises(c, wait_time)
    THEN outcome' = Raise(ValueError) /\ pc' = "done" /\ retries' = retries
    ELSE outcome' = outcome /\ pc' = "send" /\ retries' = retries + 1

\* C11: GitHub and AsyncGitHub take identical retry and pagination
\* transitions: from the same state and on the same response every step of
\* one client is the step the other client takes, so both issue the same
\* requests, wait the same durations and end with the same value, items or
\* error.  The wait is the one step whose code differs between the clients
\* (time.sleep against asyncio.sleep).
C11_SameTransitions ==
    [][ (op \in {"request", "paginate"} /\ pc = "sleep") =>
            WaitStepOf(PeerOf(client)) ]_vars

----------------------------------------------------------------------------
(* Two invocations on one client *)

CancelledError == [type |-> "CancelledError"]

\* the locals of the invocation that is running
LiveFrame ==
    [ op |-> op, pc |-> pc, response |-> response, retries |-> retries,
      wait_time |-> wait_time, outcome |-> outcome, attempts |-> attempts,
      sleeps |-> sleeps, json_calls |-> json_calls, server |-> server,
      per_page |-> per_page, params |-> params, page |-> page,
      items |-> items, idx |-> idx, yielded |-> yielded,
      req_page |-> req_page, ok_fetches |-> ok_fetches,
      next_calls |-> next_calls ]

\* the scheduler runs the other invocation: each invocation has locals of
\* its own, the client's fields are shared
Switch ==
    /\ parked' = LiveFrame
    /\ op' = parked.op
    /\ pc' = parked.pc
    /\ response' = parked.response
    /\ retries' = parked.retries
    /\ wait_time' = parked.wait_time
    /\ outcome' = parked.outcome
    /\ attempts' = parked.attempts
    /\ sleeps' = parked.sleeps
    /\ json_calls' = parked.json_calls
    /\ server' = parked.server
    /\ per_page' = parked.per_page
    /\ params' = parked.params
    /\ page' = parked.page
    /\ items' = parked.items
    /\ idx' = parked.idx
    /\ yielded' = parked.yielded
    /\ req_page' = parked.req_page
    /\ ok_fetches' = parked.ok_fetches
    /\ next_calls' = parked.next_calls
    /\ UNCHANGED << config, classified, caller, answer, sent, payload, built,
                    scope, closed, propagated, environ, listed >>

\* the task of the running invocation is cancelled while it awaits the
\* transport or the sleep: CancelledError leaves request() / paginate()
Cancel ==
    /\ client = "AsyncGitHub"
    /\ op \in {"request", "paginate"}
    /\ pc \in {"send", "sleep"}
    /\ outcome' = Raise(CancelledError)
    /\ pc' = "done"
    /\ UNCHANGED << outer, config, op, response, retries, wait_time, attempts,
                    sleeps, json_calls, listing, classified >>

\* the invocation is over and its caller goes on to a new call; what the
\* locals of the new call hold before they are assigned is left open
Discard ==
    /\ pc \in {"done", "closed"}
    /\ op' = "none"
    /\ pc' = "idle"
    /\ outcome' = Pending
    /\ attempts' = 0
    /\ sleeps' = 0
    /\ json_calls' = 0
    /\ server' = <<>>
    /\ per_page' = 0
    /\ params' = NoParams
    /\ page' = 0
    /\ items' = <<>>
    /\ idx' = 0
    /\ yielded' = <<>>
    /\ req_page' = 0
    /\ ok_fetches' = 0
    /\ next_calls' = 0
    /\ UNCHANGED << outer, config, response, retries, wait_time, classified >>

ConcResponses ==
    { Response(429, Absent, Hdr(<<"1">>), Absent, RateLimitBody),
      Response(404, Absent, Absent, Absent, NotFoundBody),
      Response(200, Absent, Absent, Absent, UserBody) }

\* one page of two items, then nothing
ConcListing == << << Item(1), Item(2) >> >>

ConcPageResponses(srv, p) ==
    { Response(429, Absent, Hdr(<<"1">>), Absent, RateLimitBody), PageOk(srv, p) }

NextConc ==
    \/ CallRequest
    \/ \E r \in ConcResponses : RequestAttempt(r)
    \/ RequestSleep
    \/ CallPaginate(PerPageCeiling, ConcListing)
    \/ ConsumerNextStart
    \/ ConsumerNextItem
    \/ ConsumerNextPage
    \/ ConsumerStop
    \/ \E r \in ConcPageResponses(server, params.page) : PageAttempt(r)
    \/ PageSleep
    \/ Switch
    \/ Cancel
    \/ Discard

SpecConc == Init /\ [][NextConc]_vars

\* an invocation whose body has begun to run has waited as often as its
\* retry count says, and gives up on a rate limit only with its whole
\* budget spent
FrameBudgetOK(f) ==
    (f.op = "request" \/ (f.op = "paginate" /\ f.next_calls >= 1)) =>
        /\ f.retries = f.sleeps
        /\ f.retries <= max_retries
        /\ ( /\ f.pc = "done" /\ auto_retry
             /\ IsRaiseOf(f.outcome, "RateLimitError")
             /\ _is_rate_limit_error(f.response) ) => f.sleeps = max_retries

\* C12: the retry count belongs to one invocation: under every interleaving
\* of two invocations on one client, and after invocations that returned,
\* raised or were cancelled, each invocation starts at count 0, counts only
\* its own waits and has all of max_retries retries to spend.
C12_RetryCountLocal == FrameBudgetOK(LiveFrame) /\ FrameBudgetOK(parked)

\* C12 witness: one invocation spent its two retries and raised while the
\* other, interleaved with it, is in its first wait
C12_Witness ==
    /\ op = "request" /\ pc = "done" /\ max_retries = 2 /\ sleeps = 2
    /\ IsRaiseOf(outcome, "RateLimitError")
    /\ parked.op = "request" /\ parked.pc = "sleep" /\ parked.retries = 0
    /\ parked.attempts = 1

----------------------------------------------------------------------------
(* Search pagination: SearchResource._paginate, a generator *)

AttributeError == [type |-> "AttributeError"]

\* data.get(key, default) on a mapping
Get(d, k, default) == IF HasKey(d, k) THEN d.v[k] ELSE default

\* what the search endpoint holds: a result count and one item list per page
SearchServers ==
    { [total_count |-> 100 * k + d, pages |-> ServerOf(lens)] :
        k \in 0..MaxPages, d \in {0, 1},
        lens \in [1..MaxPages -> {0, 1, SearchPerPage}] }

SearchOk(srv, p) ==
    Response(200, Absent, Absent, Absent,
             Body(<<"{total_count,incomplete_results,items}">>,
                  JDict([ total_count |-> JInt(srv.total_count),
                          items |-> JList(ServerPage(srv.pages, p)) ])))

SearchResponses(srv, p) == PageErrors \cup {SearchOk(srv, p), NoContent}

\* a search listing is called: the generator exists, its body has not run
CallSearch(srv) ==
    /\ pc = "idle"
    /\ op' = "search"
    /\ pc' = "created"
    /\ server' = srv
    /\ UNCHANGED << outer, config, response, retries, wait_time, outcome, attempts,
                    sleeps, json_calls, per_page, params, page, items, idx,
                    yielded, req_page, ok_fetches, next_calls, classified >>

\* first next(): per_page = 100, page = 1, up to the first transport call
SearchNextStart ==
    /\ op = "search"
    /\ pc = "created"
    /\ params' = [per_page |-> SearchPerPage, page |-> 1]
    /\ page' = 1
    /\ next_calls' = next_calls + 1
    /\ pc' = "send"
    /\ UNCHANGED << outer, config, op, response, retries, wait_time, outcome,
                    attempts, sleeps, json_calls, server, per_page, items, idx,
                    yielded, req_page, ok_fetches, classified >>

\* one pass of the loop of _paginate up to the first yield of the page: the
\* transport call, the error check, the parse and the items of the page
SearchAttempt(r) ==
    /\ op = "search"
    /\ pc = "send"
    /\ response' = r
    /\ attempts' = attempts + 1
    /\ req_page' = params.page
    /\ json_calls' = 1
    /\ IF r.status_code >= 400
       THEN /\ outcome' = Raise(_handle_error_response(r))
            /\ pc' = "done"
            /\ UNCHANGED << items, idx, yielded, ok_fetches >>
       ELSE /\ ok_fetches' = ok_fetches + 1
            /\ IF ResponseJson(r).kind = "raise"
               THEN /\ outcome' = ResponseJson(r)
                    /\ pc' = "done"
                    /\ UNCHANGED << items, idx, yielded >>
               ELSE IF ~IsDict(ResponseJson(r).value)
               THEN /\ outcome' = Raise(AttributeError)
                    /\ pc' = "done"
                    /\ UNCHANGED << items, idx, yielded >>
               ELSE LET its == Get(ResponseJson(r).value, "items", JList(<<>>)).v
                    IN  IF NotItems(its)
                        THEN /\ items' = <<>>
                             /\ outcome' = StopIteration
                             /\ pc' = "done"
                             /\ UNCHANGED << idx, yielded >>
                        ELSE /\ items' = its
                             /\ idx' = 1
                             /\ yielded' = Append(yielded, its[1])
                             /\ pc' = "suspended"
                             /\ UNCHANGED outcome
    /\ UNCHANGED << outer, config, op, retries, wait_time, sleeps, server, per_page,
                    params, page, next_calls, classified >>

\* next() while the current page still has items
SearchNextItem ==
    /\ op = "search"
    /\ pc = "suspended"
    /\ idx < Len(items)
    /\ idx' = idx + 1
    /\ yielded' = Append(yielded, items[idx + 1])
    /\ next_calls' = next_calls + 1
    /\ UNCHANGED << outer, config, op, pc, response, retries, wait_time, outcome,
                    attempts, sleeps, json_calls, server, per_page, params,
                    page, items, req_page, ok_fetches, classified >>

\* a variant that ends the listing on a short page only
SearchExhaustedShortOnly(its, p, data) == Len(its) < SearchPerPage

\* the test after the last yield of a page:
\* len(items) < 100 or page * 100 >= data.get("total_count", 0)
SearchExhausted(its, p, data) ==
    \/ Len(its) < SearchPerPage
    \/ p * SearchPerPage >= Get(data, "total_count", JInt(0)).v

\* next() after the last item of the page: the listing ends, or page += 1
\* and the loop goes round
SearchNextPage ==
    /\ op = "search"
    /\ pc = "suspended"
    /\ idx = Len(items)
    /\ next_calls' = next_calls + 1
    /\ IF SearchExhausted(items, page, response.body.json)
       THEN /\ outcome' = StopIteration
            /\ pc' = "done"
            /\ UNCHANGED << page, params, attempts >>
       ELSE /\ page' = page + 1
            /\ params' = [params EXCEPT !.page = page + 1]
            /\ attempts' = 0
            /\ pc' = "send"
            /\ UNCHANGED outcome
    /\ UNCHANGED << outer, config, op, response, retries, wait_time, sleeps,
                    json_calls, server, per_page, items, idx, yielded,
                    req_page, ok_fetches, classified >>

\* the consumer abandons the search listing
SearchStop ==
    /\ op = "search"
    /\ pc \in {"created", "suspended"}
    /\ pc' = "closed"
    /\ UNCHANGED << outer, config, op, response, retries, wait_time, outcome,
                    attempts, sleeps, json_calls, listing, classified >>

\* a client with retries to spend, with and without auto_retry
InitSearch ==
    /\ client \in Clients
    /\ auto_retry \in BOOLEAN
    /\ max_retries = MaxRetriesBound
    /\ op = "none"
    /\ pc = "idle"
    /\ response = NoResponse
    /\ retries = 0
    /\ wait_time = Tenths(0)
    /\ outcome = Pending
    /\ attempts = 0
    /\ sleeps = 0
    /\ json_calls = 0
    /\ server = <<>>
    /\ per_page = 0
    /\ params = NoParams
    /\ page = 0
    /\ items = <<>>
    /\ idx = 0
    /\ yielded = <<>>
    /\ req_page = 0
    /\ ok_fetches = 0
    /\ next_calls = 0
    /\ shaped = FALSE
    /\ computed_wait = Tenths(0)
    /\ clock = 0
    /\ OuterInit

NextSearch ==
    \/ \E srv \in SearchServers : CallSearch(srv)
    \/ SearchNextStart
    \/ /\ op = "search"
       /\ \E r \in SearchResponses(server, params.page) : SearchAttempt(r)
    \/ SearchNextItem
    \/ SearchNextPage
    \/ SearchStop

SpecSearch == InitSearch /\ [][NextSearch]_vars

\* the item count of page p meets one of the two stop conditions
StopsAt(srv, p) ==
    \/ Len(ServerPage(srv.pages, p)) < 100
    \/ p * 100 >= srv.total_count

\* the first page that meets a stop condition
LastSearchPage(srv) ==
    CHOOSE p \in 1..(Len(srv.pages) + 1) :
        StopsAt(srv, p) /\ \A q \in 1..(p - 1) : ~StopsAt(srv, q)

RECURSIVE SearchConcat(_, _)
SearchConcat(srv, k) ==
    IF k = 0 THEN <<>> ELSE SearchConcat(srv, k - 1) \o ServerPage(srv.pages, k)

\* the endpoint serves its total_count results in full pages of 100
FullPages(srv) ==
    \A p \in 1..(Len(srv.pages) + 1) :
        Len(ServerPage(srv.pages, p)) =
            Min(100, Max(0, srv.total_count - 100 * (p - 1)))

CeilDiv(n, d) == (n + d - 1) \div d

\* C13: search pagination requests pages 1, 2, ... with per_page = 100,
\* yields the items of each page in order and ends after the first page whose
\* item count is below 100 or for which page * 100 >= total_count; no later
\* page is requested, so total_count = n served in full pages takes
\* ceil(n / 100) fetches, and one fetch when n = 0.
C13_SearchStops ==
    (op = "search" /\ req_page >= 1) =>
        /\ params.per_page = 100
        /\ req_page <= LastSearchPage(server)
        /\ req_page \in {page, page - 1}
        /\ ok_fetches <= req_page
        /\ IsPrefix(yielded, SearchConcat(server, req_page))
        /\ Len(yielded) >= Len(SearchConcat(server, req_page - 1))
        /\ (pc = "done" /\ outcome = StopIteration) =>
              /\ req_page = LastSearchPage(server)
              /\ ok_fetches = LastSearchPage(server)
              /\ yielded = SearchConcat(server, LastSearchPage(server))
              /\ FullPages(server) =>
                    ok_fetches = IF server.total_count = 0 THEN 1
                                 ELSE CeilDiv(server.total_count, 100)

\* C13 witness: 200 results in two full pages were listed with two fetches
\* and the third page was not requested
C13_Witness ==
    /\ op = "search" /\ pc = "done" /\ outcome = StopIteration
    /\ server.total_count = 200
    /\ Len(yielded) = 200
    /\ ok_fetches = 2 /\ req_page = 2

\* C14: search pagination takes no part in auto-retry: a rate-limit-shaped
\* response to a search page ends the listing with RateLimitError after one
\* transport call for that page and no wait, whatever auto_retry and
\* max_retries are.
C14_SearchNoRetry ==
    (op = "search" /\ response.status_code >= 400
        /\ RateLimitShaped(response)) =>
        /\ pc = "done"
        /\ attempts = 1
        /\ sleeps = 0
        /\ retries = 0
        /\ IsRaiseOf(outcome, "RateLimitError")

----------------------------------------------------------------------------
(* Domain models: from_dict, the context-bound methods, the boolean adapters *)

JBool(b) == [t |-> "bool", v |-> b]
KeyError(k) == [type |-> "KeyError", key |-> k]
TypeError == [type |-> "TypeError"]
RuntimeError(message) == [type |-> "RuntimeError", message |-> message]

\* what calling a coroutine function without awaiting it returns
Coroutine == [t |-> "coroutine"]

\* _parse_datetime: None stays None; "Z" is replaced by "+00:00" and the
\* text is parsed as an instant with an optional UTC offset
_parse_datetime(value) ==
    IF value.t = "None" THEN Return(None)
    ELSE IF value.t # "str" THEN Raise(AttributeError)
    ELSE LET text == [i \in 1..Len(value.v) |->
                        IF value.v[i] = "Z" THEN "+00:00" ELSE value.v[i]]
             instants == {"2024-01-15T10:30:00", "2024-02-01T00:00:00"}
             offsets == {"+00:00", "+02:00"}
         IN  IF /\ Len(text) \in {1, 2}
                /\ text[1] \in instants
                /\ Len(text) = 2 => text[2] \in offsets
             THEN Return([t |-> "datetime", instant |-> text[1],
                          utcoffset |-> IF Len(text) = 2 THEN text[2] ELSE "naive"])
             ELSE Raise(ValueError)

\* the statements of from_dict and the keyword arguments of cls(...), in
\* evaluation order: << field, how it is read, default or source keys >>.
\* A "local" is fetched before cls(...) and is no field of the model
FieldsOf(cls) ==
    CASE cls = "User" ->
           << <<"login", "item", None>>, <<"id", "item", None>>,
              <<"avatar_url", "get", JStr(<<>>)>>, <<"html_url", "get", JStr(<<>>)>>,
              <<"type", "get", JStr(<<"User">>)>>, <<"name", "get", None>>,
              <<"email", "get", None>>, <<"bio", "get", None>>,
              <<"company", "get", None>>, <<"location", "get", None>>,
              <<"blog", "get", None>>, <<"twitter_username", "get", None>>,
              <<"public_repos", "get", None>>, <<"public_gists", "get", None>>,
              <<"followers", "get", None>>, <<"following", "get", None>>,
              <<"created_at", "datetime", None>>, <<"updated_at", "datetime", None>> >>
      [] cls = "Label" ->
           << <<"id", "item", None>>, <<"name", "item", None>>,
              <<"color", "get", JStr(<<>>)>>, <<"description", "get", None>>,
              <<"default", "get", JBool(FALSE)>> >>
      [] cls = "Milestone" ->
           << <<"id", "item", None>>, <<"number", "item", None>>,
              <<"title", "item", None>>, <<"description", "get", None>>,
              <<"state", "get", JStr(<<"open">>)>>, <<"open_issues", "get", JInt(0)>>,
              <<"closed_issues", "get", JInt(0)>>,
              <<"created_at", "datetime", None>>, <<"updated_at", "datetime", None>>,
              <<"due_on", "datetime", None>>, <<"closed_at", "datetime", None>> >>
      [] cls = "Comment" ->
           << <<"id", "item", None>>, <<"body", "get", JStr(<<>>)>>,
              <<"user", "user", None>>, <<"html_url", "get", JStr(<<>>)>>,
              <<"created_at", "datetime", None>>, <<"updated_at", "datetime", None>> >>
      [] cls = "Issue" ->
           << <<"assignees", "users", None>>, <<"labels", "labels", None>>,
              <<"milestone", "milestone", None>>,
              <<"id", "item", None>>, <<"number", "item", None>>,
              <<"title", "item", None>>, <<"body", "get", None>>,
              <<"state", "get", JStr(<<"open">>)>>, <<"locked", "get", JBool(FALSE)>>,
              <<"user", "user", None>>, <<"assignee", "user", None>>,
              <<"html_url", "get", JStr(<<>>)>>, <<"comments", "get", JInt(0)>>,
              <<"created_at", "datetime", None>>, <<"updated_at", "datetime", None>>,
              <<"closed_at", "datetime", None>>, <<"closed_by", "user", None>> >>
      [] cls = "PullRequest" ->
           << <<"assignees", "users", None>>, <<"labels", "labels", None>>,
              <<"milestone", "milestone", None>>,
              <<"head", "local", EmptyDict>>, <<"base", "local", EmptyDict>>,
              <<"id", "item", None>>, <<"number", "item", None>>,
              <<"title", "item", None>>, <<"body", "get", None>>,
              <<"state", "get", JStr(<<"open">>)>>, <<"locked", "get", JBool(FALSE)>>,
              <<"draft", "get", JBool(FALSE)>>, <<"merged", "get", JBool(FALSE)>>,
              <<"mergeable", "get", None>>,
              <<"user", "user", None>>, <<"assignee", "user", None>>,
              <<"html_url", "get", JStr(<<>>)>>,
              <<"head_ref", "sub", <<"head", "ref">> >>,
              <<"head_sha", "sub", <<"head", "sha">> >>,
              <<"base_ref", "sub", <<"base", "ref">> >>,
              <<"base_sha", "sub", <<"base", "sha">> >>,
              <<"comments", "get", JInt(0)>>, <<"commits", "get", JInt(0)>>,
              <<"additions", "get", JInt(0)>>, <<"deletions", "get", JInt(0)>>,
              <<"changed_files", "get", JInt(0)>>,
              <<"created_at", "datetime", None>>, <<"updated_at", "datetime", None>>,
              <<"closed_at", "datetime", None>>, <<"merged_at", "datetime", None>>,
              <<"merged_by", "user", None>> >>
      [] cls = "Repository" ->
           << <<"id", "item", None>>, <<"name", "item", None>>,
              <<"full_name", "item", None>>, <<"owner", "user", None>>,
              <<"private", "get", JBool(FALSE)>>, <<"description", "get", None>>,
              <<"fork", "get", JBool(FALSE)>>, <<"html_url", "get", JStr(<<>>)>>,
              <<"clone_url", "get", JStr(<<>>)>>, <<"ssh_url", "get", JStr(<<>>)>>,
              <<"homepage", "get", None>>, <<"language", "get", None>>,
              <<"forks_count", "get", JInt(0)>>, <<"stargazers_count", "get", JInt(0)>>,
              <<"watchers_count", "get", JInt(0)>>,
              <<"open_issues_count", "get", JInt(0)>>,
              <<"default_branch", "get", JStr(<<"main">>)>>,
              <<"archived", "get", JBool(FALSE)>>, <<"disabled", "get", JBool(FALSE)>>,
              <<"pushed_at", "datetime", None>>, <<"created_at", "datetime", None>>,
              <<"updated_at", "datetime", None>> >>
      [] cls = "Branch" ->
           << <<"commit", "local", EmptyDict>>,
              <<"name", "item", None>>, <<"protected", "get", JBool(FALSE)>>,
              <<"sha", "sub", <<"commit", "sha">> >> >>
      [] cls = "SearchResult" ->
           << <<"items", "items", JList(<<>>)>>, <<"total_count", "get", JInt(0)>>,
              <<"incomplete_results", "get", JBool(FALSE)>> >>

\* the private fields the dataclass declares besides the public ones
HiddenFields(cls) ==
    CASE cls \in {"Comment", "Issue", "PullRequest"} -> {"_raw", "_repo"}
      [] cls = "Repository" -> {"_raw", "_client"}
      [] cls = "SearchResult" -> {}
      [] OTHER -> {"_raw"}

\* the first exception of a sequence of evaluations, else the values
Collect(outs) ==
    LET bad == { i \in 1..Len(outs) : outs[i].kind = "raise" }
    IN  IF bad # {}
        THEN outs[CHOOSE i \in bad : \A j \in bad : i <= j]
        ELSE Return(JList([i \in 1..Len(outs) |-> outs[i].value]))

RECURSIVE from_dict(_, _, _)

\* [cls.from_dict(x) for x in data]: a list gives its elements, a dict its
\* keys and a str its characters, which no from_dict can index by a name;
\* an empty one of them gives []; nothing else can be iterated
ListOf(cls, data) ==
    IF data.t = "list"
    THEN Collect([i \in 1..Len(data.v) |-> from_dict(cls, data.v[i], None)])
    ELSE IF data.t \in {"dict", "str"} /\ ~PyTruthy(data)
    THEN Return(JList(<<>>))
    ELSE Raise(TypeError)

\* _parse_user
_parse_user(data) ==
    IF data.t = "None" THEN Return(None) ELSE from_dict("User", data, None)

\* one keyword argument of cls(...): data[key], data.get(key, default),
\* or a nested conversion of data.get(key)
FieldValue(e, data, context) ==
    LET key == e[1]
        how == e[2]
    IN  IF how = "item"
        THEN IF ~IsDict(data) THEN Raise(TypeError)
             ELSE IF HasKey(data, key) THEN Return(data.v[key])
             ELSE Raise(KeyError(key))
        ELSE IF ~IsDict(data) THEN Raise(AttributeError)
        ELSE CASE how \in {"get", "local"} -> Return(Get(data, key, e[3]))
               [] how = "items" ->
                    \* SearchResult: the second argument is item_parser, and
                    \* a context is no callable
                    LET found == Get(data, key, e[3])
                    IN  IF context = None THEN Return(found)
                        ELSE IF found.t \in {"list", "dict", "str"}
                                /\ ~PyTruthy(found)
                        THEN Return(JList(<<>>))
                        ELSE Raise(TypeError)
               [] how = "datetime" -> _parse_datetime(Get(data, key, None))
               [] how = "user" -> _parse_user(Get(data, key, None))
               [] how = "users" -> ListOf("User", Get(data, key, JList(<<>>)))
               [] how = "labels" -> ListOf("Label", Get(data, key, JList(<<>>)))
               [] how = "milestone" ->
                    IF PyTruthy(Get(data, key, None))
                    THEN from_dict("Milestone", data.v[key], None)
                    ELSE Return(None)
               [] how = "sub" ->
                    LET inner == Get(data, e[3][1], EmptyDict)
                    IN  IF IsDict(inner)
                        THEN Return(Get(inner, e[3][2], JStr(<<>>)))
                        ELSE Raise(AttributeError)

\* cls.from_dict(data) when context is None, else cls.from_dict(data,
\* context): the first exception raised while the arguments are evaluated,
\* else the model: its class and its fields. User, Label, Milestone and
\* Branch take the payload alone, and a second argument is a TypeError
from_dict(cls, data, context) ==
    LET fs == FieldsOf(cls)
        args == Collect([i \in 1..Len(fs) |-> FieldValue(fs[i], data, context)])
        public == { fs[i][1] : i \in { j \in 1..Len(fs) : fs[j][2] # "local" } }
        at(n) == CHOOSE i \in 1..Len(fs) : fs[i][1] = n
    IN  IF context # None /\ cls \in {"User", "Label", "Milestone", "Branch"}
        THEN Raise(TypeError)
        ELSE IF args.kind = "raise" THEN args
        ELSE Return([ t |-> cls,
                      v |-> [ n \in public \cup HiddenFields(cls) |->
                                IF n = "_raw" THEN data
                                ELSE IF n \in {"_repo", "_client"} THEN context
                                ELSE args.value.v[at(n)] ] ])

ModelClasses ==
    { "User", "Label", "Milestone", "Comment", "Issue", "PullRequest",
      "Repository", "Branch", "SearchResult" }

\* payloads of the endpoints, as the tests give them to from_dict
Payload(kind) ==
    LET stamp(offset) == JStr(<<"2024-01-15T10:30:00", offset>>)
    IN  CASE kind = "label" -> JDict([id |-> JInt(5), name |-> JStr(<<"bug">>)])
          [] kind = "issue" ->
               JDict([ id |-> JInt(1), number |-> JInt(42), title |-> JStr(<<"Bug">>),
                       state |-> JStr(<<"open">>), user |-> UserBody.json,
                       assignees |-> JList(<< UserBody.json >>),
                       labels |-> JList(<< JDict([ id |-> JInt(5),
                                                   name |-> JStr(<<"bug">>) ]) >>),
                       milestone |-> JDict([ id |-> JInt(3), number |-> JInt(1),
                                             title |-> JStr(<<"v1">>) ]),
                       head |-> JDict([ref |-> JStr(<<"feature">>)]),
                       created_at |-> stamp("Z"),
                       node_id |-> JStr(<<"I_1">>) ])
          [] kind = "closed issue" ->
               JDict([ id |-> JInt(1), number |-> JInt(42), title |-> JStr(<<"Bug">>),
                       state |-> JStr(<<"closed">>), milestone |-> None,
                       closed_at |-> stamp("+00:00") ])
          [] kind = "bad timestamp" ->
               JDict([ id |-> JInt(1), number |-> JInt(42), title |-> JStr(<<"Bug">>),
                       created_at |-> JStr(<<"yesterday">>) ])
          [] kind = "repository" ->
               JDict([ id |-> JInt(9), name |-> JStr(<<"n">>),
                       full_name |-> JStr(<<"o/n">>), owner |-> UserBody.json,
                       fork |-> JBool(TRUE),
                       commit |-> JDict([sha |-> JStr(<<"abc">>)]) ])
          [] kind = "search" ->
               JDict([ total_count |-> JInt(1), incomplete_results |-> JBool(FALSE),
                       items |-> JList(<< Item(1) >>) ])
          [] kind = "user" -> UserBody.json

Payloads ==
    { Payload(kind) :
        kind \in { "issue", "closed issue", "bad timestamp", "repository",
                   "search", "user" } }

\* the coordinates of the facade that client.repo("o", "n") returns
Facade(c) ==
    [ t |-> IF c = "GitHub" THEN "Repo" ELSE "AsyncRepo",
      owner |-> JStr(<<"o">>), name |-> JStr(<<"n">>),
      full_name |-> JStr(<<"o/n">>), number |-> JInt(42) ]

\* the context a facade of client c attaches to a model of class cls
ContextOf(cls, c) == IF cls = "Repository" THEN [t |-> c] ELSE Facade(c)

\* the methods that need a context: the class, the name, whether the body
\* has a yield, the request it leads to and what is made of the answer
Methods ==
    LET Method(cls, name, gen, verb, path, json, result) ==
            [ cls |-> cls, name |-> name, gen |-> gen, verb |-> verb,
              path |-> path, json |-> json, result |-> result ]
        IssuePath(coll, tail) ==
            <<"repos", "{owner}", "{repo}", coll, "{number}">> \o tail
    IN
        { Method("Issue", "close", FALSE, "PATCH", IssuePath("issues", <<>>),
                 JDict([state |-> JStr(<<"closed">>)]), "Issue"),
          Method("Issue", "reopen", FALSE, "PATCH", IssuePath("issues", <<>>),
                 JDict([state |-> JStr(<<"open">>)]), "Issue"),
          Method("Issue", "add_comment", FALSE, "POST", IssuePath("issues", <<"comments">>),
                 JDict([body |-> JStr(<<"b">>)]), "Comment"),
          Method("Issue", "add_labels", FALSE, "POST", IssuePath("issues", <<"labels">>),
                 JDict([labels |-> JList(<< JStr(<<"l">>) >>)]), "labels"),
          Method("Issue", "remove_label", FALSE, "DELETE",
                 IssuePath("issues", <<"labels", "l">>), None, "none"),
          Method("Issue", "lock", FALSE, "PUT", IssuePath("issues", <<"lock">>),
                 EmptyDict, "none"),
          Method("Issue", "unlock", FALSE, "DELETE", IssuePath("issues", <<"lock">>),
                 None, "none"),
          Method("Issue", "list_comments", TRUE, "GET", IssuePath("issues", <<"comments">>),
                 None, "iter"),
          Method("PullRequest", "close", FALSE, "PATCH", IssuePath("pulls", <<>>),
                 JDict([state |-> JStr(<<"closed">>)]), "PullRequest"),
          Method("PullRequest", "merge", FALSE, "PUT", IssuePath("pulls", <<"merge">>),
                 JDict([merge_method |-> JStr(<<"merge">>)]), "raw"),
          Method("PullRequest", "approve", FALSE, "POST", IssuePath("pulls", <<"reviews">>),
                 JDict([event |-> JStr(<<"APPROVE">>)]), "raw"),
          Method("PullRequest", "request_changes", FALSE, "POST",
                 IssuePath("pulls", <<"reviews">>),
                 JDict([event |-> JStr(<<"REQUEST_CHANGES">>), body |-> JStr(<<"b">>)]),
                 "raw"),
          Method("PullRequest", "comment", FALSE, "POST", IssuePath("pulls", <<"reviews">>),
                 JDict([event |-> JStr(<<"COMMENT">>), body |-> JStr(<<"b">>)]), "raw"),
          Method("PullRequest", "add_comment", FALSE, "POST",
                 IssuePath("issues", <<"comments">>),
                 JDict([body |-> JStr(<<"b">>)]), "Comment"),
          Method("PullRequest", "request_reviewers", FALSE, "POST",
                 IssuePath("pulls", <<"requested_reviewers">>),
                 JDict([reviewers |-> JList(<< JStr(<<"r">>) >>)]), "PullRequest"),
          Method("PullRequest", "list_commits", FALSE, "GET",
                 IssuePath("pulls", <<"commits">>), None, "iter"),
          Method("PullRequest", "list_files", FALSE, "GET",
                 IssuePath("pulls", <<"files">>), None, "iter"),
          Method("Repository", "star", FALSE, "PUT",
                 <<"user", "starred", "{full_name}">>, None, "none"),
          Method("Repository", "unstar", FALSE, "DELETE",
                 <<"user", "starred", "{full_name}">>, None, "none"),
          Method("Repository", "is_starred", FALSE, "GET",
                 <<"user", "starred", "{full_name}">>, None, "bool"),
          Method("Repository", "fork", FALSE, "POST",
                 <<"repos", "{full_name}", "forks">>, None, "Repository"),
          Method("Repository", "subscribe", FALSE, "PUT",
                 <<"repos", "{full_name}", "subscription">>,
                 JDict([subscribed |-> JBool(TRUE)]), "none"),
          Method("Repository", "unsubscribe", FALSE, "DELETE",
                 <<"repos", "{full_name}", "subscription">>, None, "none"),
          Method("Repo", "is_starred", FALSE, "GET",
                 <<"user", "starred", "{full_name}">>, None, "bool"),
          Method("PullsResource", "is_merged", FALSE, "GET",
                 IssuePath("pulls", <<"merge">>), None, "bool") }

\* the facade and resource objects: always bound, in a sync and an async version
FacadeClasses == {"Repo", "PullsResource"}

\* the object a method is called on
Receiver(m) ==
    IF m.cls \in FacadeClasses THEN Facade(client) ELSE built[1].model.value.v

\* self._repo / self._client of the receiver
BoundContext(m) ==
    IF m.cls \in FacadeClasses THEN Facade(client)
    ELSE IF m.cls = "Repository" THEN Receiver(m)["_client"]
    ELSE Receiver(m)["_repo"]

\* an f-string field: str() of an int, the text of a str
Format(v) == IF v.t = "int" THEN << ToString(v.v) >> ELSE v.v

\* the path an f-string builds from self and self._repo
RECURSIVE PathOf(_, _, _)
PathOf(pattern, self, context) ==
    IF pattern = <<>> THEN <<>>
    ELSE LET h == Head(pattern)
             seg == CASE h = "{owner}" -> Format(context.owner)
                      [] h = "{repo}" -> Format(context.name)
                      [] h = "{number}" -> Format(self.number)
                      [] h = "{full_name}" -> Format(self.full_name)
                      [] OTHER -> << h >>
         IN  seg \o PathOf(Tail(pattern), self, context)

\* what the method makes of the answer o of the resource call
Finish(m, context, o) ==
    IF o.kind = "raise"
    THEN IF m.result = "bool" THEN Return(JBool(FALSE)) ELSE o
    ELSE CASE m.result = "bool" -> Return(JBool(TRUE))
           [] m.result = "none" -> Return(None)
           [] m.result = "raw" -> o
           [] m.result = "labels" -> ListOf("Label", o.value)
           [] OTHER -> from_dict(m.result, o.value, context)

\* the iterator a listing method hands back before anything is requested
IteratorOf(m, context) ==
    IF m.gen \/ context.t \in {"Repo", "GitHub"}
    THEN [t |-> "generator"] ELSE [t |-> "async_generator"]

\* cls.from_dict(payload) or, with a facade, cls.from_dict(payload, context)
Convert(cls, bound) ==
    /\ caller.cls = "none"
    /\ Len(built) < 2
    /\ built' = Append(built,
           [ cls |-> cls, bound |-> bound,
             model |-> from_dict(cls, payload,
                                 IF bound THEN ContextOf(cls, client) ELSE None) ])
    /\ payload' = payload
    /\ UNCHANGED << environ, listed, parked, caller, answer, sent, scope, closed, propagated,
                    config, op, pc, response, retries, wait_time, outcome,
                    attempts, sleeps, json_calls, listing, classified >>

\* a method is called on the first model built, or on the facade: the
\* attribute lookup, the unbound check and the start of the resource call
CallMethod(m) ==
    /\ caller.cls = "none"
    /\ pc = "idle"
    /\ IF m.cls \in FacadeClasses
       THEN built = <<>>
       ELSE /\ Len(built) = 1
            /\ built[1].cls = m.cls
            /\ built[1].model.kind = "return"
    /\ caller' = m
    /\ LET self == Receiver(m)
           context == BoundContext(m)
       IN  IF m.name \in DOMAIN self
           THEN answer' = Raise(TypeError) /\ sent' = sent
           ELSE IF m.gen
           THEN answer' = Return(IteratorOf(m, context)) /\ sent' = sent
           ELSE IF context.t = "None"
           THEN /\ answer' = Raise(RuntimeError(
                      << m.cls, "not", "bound", "to", "a",
                         IF m.cls = "Repository" THEN "client" ELSE "repository" >>))
                /\ sent' = sent
           ELSE IF m.result = "iter"
           THEN answer' = Return(IteratorOf(m, context)) /\ sent' = sent
           ELSE IF m.cls \notin FacadeClasses /\ context.t \in {"AsyncRepo", "AsyncGitHub"}
           THEN answer' = Finish(m, context, Return(Coroutine)) /\ sent' = sent
           ELSE /\ answer' = Pending
                /\ sent' = [ method |-> m.verb,
                             path |-> PathOf(m.path, self, context),
                             json |-> m.json ]
    /\ UNCHANGED << environ, listed, parked, payload, built, scope, closed, propagated,
                    config, op, pc, response, retries, wait_time, outcome,
                    attempts, sleeps, json_calls, listing, classified >>

\* the resource call has ended: the method converts, returns or re-raises
MethodReturn ==
    /\ caller.cls # "none"
    /\ answer = Pending
    /\ op = "request"
    /\ pc = "done"
    /\ answer' = Finish(caller, BoundContext(caller), outcome)
    /\ UNCHANGED << environ, listed, parked, caller, sent, payload, built, scope, closed,
                    propagated, config, op, pc, response, retries, wait_time,
                    outcome, attempts, sleeps, json_calls, listing, classified >>

\* what the transport may answer to the request of a method
MethodResponses ==
    PageErrors \cup
    { NoContent,
      Response(401, Absent, Absent, Absent, NotFoundBody),
      Response(422, Absent, Absent, Absent, NoMessageBody),
      Response(200, Absent, Absent, Absent, Body(<<"{issue}">>, Payload("closed issue"))),
      Response(200, Absent, Absent, Absent, Body(<<"{repository}">>, Payload("repository"))),
      Response(200, Absent, Absent, Absent, Body(<<"[labels]">>, JList(<< Payload("label") >>))) }

InitModels ==
    /\ client \in Clients
    /\ auto_retry \in BOOLEAN
    /\ max_retries = 1
    /\ op = "none"
    /\ pc = "idle"
    /\ response = NoResponse
    /\ retries = 0
    /\ wait_time = Tenths(0)
    /\ outcome = Pending
    /\ attempts = 0
    /\ sleeps = 0
    /\ json_calls = 0
    /\ server = <<>>
    /\ per_page = 0
    /\ params = NoParams
    /\ page = 0
    /\ items = <<>>
    /\ idx = 0
    /\ yielded = <<>>
    /\ req_page = 0
    /\ ok_fetches = 0
    /\ next_calls = 0
    /\ shaped = FALSE
    /\ computed_wait = Tenths(0)
    /\ clock = 0
    /\ parked = IdleFrame
    /\ caller = [cls |-> "none"]
    /\ answer = Pending
    /\ sent = NoRequest
    /\ payload \in Payloads
    /\ built = <<>>
    /\ scope = "none"
    /\ closed = FALSE
    /\ propagated = None
    /\ environ = NoEnviron
    /\ listed = NoneListed

NextModels ==
    \/ \E cls \in ModelClasses, bound \in BOOLEAN : Convert(cls, bound)
    \/ \E m \in Methods : CallMethod(m)
    \/ /\ caller.cls # "none" /\ answer = Pending
       /\ CallRequest
    \/ /\ caller.cls # "none"
       /\ \E r \in MethodResponses : RequestAttempt(r)
    \/ /\ caller.cls # "none"
       /\ RequestSleep
    \/ MethodReturn

SpecModels == InitModels /\ [][NextModels]_vars

\* the call in progress is a method of a model, and the model is unbound / bound
OnModel == caller.cls \in {"Issue", "PullRequest", "Repository"}
Unbound == BoundContext(caller).t = "None"

\* C15: a boolean adapter (Repo.is_starred, Repository.is_starred,
\* pulls.is_merged, sync and async) answers true when the probe request
\* succeeds, false when and only when the probe raises NotFoundError, and lets
\* every other error of the probe reach the caller unchanged.
C15_AdapterOnlyNotFound ==
    ( /\ caller.cls # "none"
      /\ caller.result = "bool"
      /\ op = "request" /\ pc = "done"
      /\ answer # Pending ) =>
        /\ outcome.kind = "return" => answer = Return(JBool(TRUE))
        /\ IsRaiseOf(outcome, "NotFoundError") => answer = Return(JBool(FALSE))
        /\ (outcome.kind = "raise" /\ ~IsRaiseOf(outcome, "NotFoundError")) =>
              answer = outcome

\* C16: every context-bound method called on a model built without a context
\* raises, at the call, an error whose message says the model is not bound,
\* and issues no request.
C16_UnboundRaises ==
    (OnModel /\ Unbound) =>
        /\ answer.kind = "raise"
        /\ answer.error.type = "RuntimeError"
        /\ Contains(answer.error.message, <<"not", "bound">>)
        /\ sent = NoRequest

\* C17: a context-bound operation that returns a model issues its request
\* with the owner and name of the bound repository and the number of the
\* receiver (the full name for a Repository), returns a model converted from
\* the response and bound to the same context, and leaves the receiver as it
\* was built.
C17_BoundOperation ==
    ( /\ OnModel /\ ~Unbound
      /\ caller.result \in ModelClasses
      /\ answer # Pending
      /\ op = "request" =>
            /\ outcome.kind = "return"
            /\ from_dict(caller.result, outcome.value, None).kind = "return" ) =>
        LET self == Receiver(caller)
            context == BoundContext(caller)
        IN  /\ sent.method = caller.verb
            /\ IF caller.cls = "Repository"
               THEN Contains(sent.path, self.full_name.v)
               ELSE /\ SubSeq(sent.path, 2, 3) = context.owner.v \o context.name.v
                    /\ sent.path[5] = ToString(self.number.v)
            /\ answer.kind = "return"
            /\ answer.value = from_dict(caller.result, outcome.value, context).value
            /\ built[1].model = from_dict(caller.cls, payload, context)

\* C18: every model built from a payload keeps that payload and exposes it as
\* its raw data, for each of the nine model classes.
C18_RawRetained ==
    \A i \in 1..Len(built) :
        built[i].model.kind = "return" =>
            /\ "_raw" \in DOMAIN built[i].model.value.v
            /\ built[i].model.value.v["_raw"] = payload

----------------------------------------------------------------------------
(* The client as a scoped resource: with GitHub() as gh / async with *)

\* __enter__ / __aenter__: the client itself is handed to the body
EnterScope ==
    /\ scope = "none"
    /\ scope' = "inside"
    /\ UNCHANGED << environ, listed, parked, caller, answer, sent, payload, built, closed,
                    propagated, config, op, pc, response, retries, wait_time,
                    outcome, attempts, sleeps, json_calls, listing, classified >>

\* close() / await close(), called by the caller itself: the transport is
\* closed, inside a with statement or without one
Close ==
    /\ ~closed
    /\ pc \in {"idle", "created", "suspended", "done", "closed"}
    /\ closed' = TRUE
    /\ UNCHANGED << environ, listed, parked, caller, answer, sent, payload, built, scope,
                    propagated, config, op, pc, response, retries, wait_time,
                    outcome, attempts, sleeps, json_calls, listing, classified >>

\* the exception the body ends with, handed to __exit__: none when the body
\* runs to its end (an error of request() or paginate() it caught included),
\* its own, or the error of the last request() or paginate() it let through
InFlight(ending) ==
    CASE ending = "engine" -> outcome.error
      [] ending = "own" -> RuntimeError(<<"body">>)
      [] OTHER -> None

\* a variant of __exit__ that releases the transport on the normal path only
ExitScopeLeaksOnError(ending) ==
    /\ scope = "inside"
    /\ pc \in {"idle", "created", "suspended", "done", "closed"}
    /\ ending = "engine" => outcome.kind = "raise"
    /\ closed' = (InFlight(ending) = None)
    /\ scope' = "left"
    /\ LET exc == InFlight(ending)
           returned == None
       IN  /\ answer' = IF exc = None THEN Return(None) ELSE Raise(exc)
           /\ propagated' = IF PyTruthy(returned) THEN None ELSE exc
    /\ UNCHANGED << environ, listed, parked, caller, sent, payload, built, config, op, pc,
                    response, retries, wait_time, outcome, attempts, sleeps,
                    json_calls, listing, classified >>

\* the body ends, by its last statement or by an exception, and __exit__ /
\* __aexit__ runs: close() closes the transport. answer is how the body
\* ended; __exit__ returns None, which is falsy, so the exception goes on.
\* The body uses the client while its transport is open
ExitScope(ending) ==
    /\ scope = "inside"
    /\ pc \in {"idle", "created", "suspended", "done", "closed"}
    /\ ending = "engine" => outcome.kind = "raise"
    /\ closed' = TRUE
    /\ scope' = "left"
    /\ LET exc == InFlight(ending)
           returned == None
       IN  /\ answer' = IF exc = None THEN Return(None) ELSE Raise(exc)
           /\ propagated' = IF PyTruthy(returned) THEN None ELSE exc
    /\ UNCHANGED << environ, listed, parked, caller, sent, payload, built, config, op, pc,
                    response, retries, wait_time, outcome, attempts, sleeps,
                    json_calls, listing, classified >>

NextScope ==
    \/ EnterScope
    \/ Close
    \/ \E ending \in {"normal", "own", "engine"} : ExitScope(ending)
    \/ scope = "inside" /\ ~closed /\ CallRequest
    \/ scope = "inside" /\ ~closed /\ \E r \in ConcResponses : RequestAttempt(r)
    \/ scope = "inside" /\ ~closed /\ RequestSleep
    \/ scope = "inside" /\ ~closed /\ CallPaginate(PerPageCeiling, ConcListing)
    \/ scope = "inside" /\ ~closed /\ ConsumerNextStart
    \/ scope = "inside" /\ ~closed /\ ConsumerNextItem
    \/ scope = "inside" /\ ~closed /\ ConsumerNextPage
    \/ scope = "inside" /\ ~closed /\ ConsumerStop
    \/ /\ scope = "inside" /\ ~closed
       /\ op = "paginate"
       /\ \E r \in ConcPageResponses(server, params.page) : PageAttempt(r)
    \/ scope = "inside" /\ ~closed /\ PageSleep

SpecScope == Init /\ [][NextScope]_vars

\* C20: a client used as a scoped resource releases its transport on every
\* exit path: once the scope is left the transport is closed, whether the
\* body ran to its end or raised (an error of request(), of a partly consumed
\* paginate(), or its own); the exception the body ended with is the one
\* that leaves the with statement, and none leaves it when the body ended
\* normally; before the exit nothing has left it, and the transport is closed
\* by no step of the client but the exit, the caller's own close() apart.
C20_ScopeReleases ==
    [][ /\ scope' = "left" =>
              /\ closed'
              /\ answer'.kind = "raise" => propagated' = answer'.error
              /\ answer'.kind = "return" => propagated' = None
        /\ scope' # "left" => propagated' = None
        /\ (scope = "inside" /\ scope' = "left" /\ outcome.kind = "raise"
               /\ propagated' \notin {None, RuntimeError(<<"body">>)}) =>
              propagated' = outcome.error
        /\ (~closed /\ closed' /\ scope' # "left") =>
              UNCHANGED << scope, op, pc, response, retries, outcome, attempts,
                           listing >>
      ]_vars

\* C20 witness: the body raised while a paginate() generator was partly
\* consumed; the transport is closed and the exception went on
C20_Witness ==
    /\ scope = "left"
    /\ closed
    /\ op = "paginate" /\ pc = "suspended"
    /\ Len(yielded) = 1
    /\ propagated = RuntimeError(<<"body">>)

----------------------------------------------------------------------------
(* Rate-limit reset time and error message *)

\* C23: a 403 or 429 response is raised as RateLimitError whose reset_at is
\* the integer parsed from X-RateLimit-Reset, and None when the header is
\* absent or does not parse; a malformed header never makes another error.
C23_ResetAtParsed ==
    (op = "classify" /\ pc = "done" /\ response.status_code \in {403, 429}) =>
        /\ IsRaiseOf(outcome, "RateLimitError")
        /\ outcome.error.reset_at =
              IF response.reset.present /\ ParseInt(response.reset.value).ok
              THEN JInt(ParseInt(response.reset.value).v)
              ELSE None

\* C24: the message of the API error raised for a response is the "message"
\* field of its JSON body when the body is a JSON object with that field,
\* and the raw response text otherwise; which error is raised does not
\* depend on the body.
C24_MessageSource ==
    (op = "classify" /\ pc = "done" /\ response.status_code >= 400) =>
        LET j == response.body.json
            e == outcome.error
            bare == [response EXCEPT !.body = EmptyBody]
        IN  /\ outcome.kind = "raise"
            /\ e.type = _handle_error_response(bare).type
            /\ e.type # "ValueError" =>
                  e.message = IF j.t = "dict" /\ "message" \in DOMAIN j.v
                              THEN j.v["message"]
                              ELSE JStr(response.body.text)

\* C24 witness: a 404 whose JSON body has no "message" field was raised as
\* NotFoundError with the response text as its message
C24_Witness ==
    /\ op = "classify" /\ pc = "done"
    /\ response.status_code = 404
    /\ response.body = NoMessageBody
    /\ IsRaiseOf(outcome, "NotFoundError")
    /\ outcome.error.message = JStr(<<"{documentation_url:docs}">>)

----------------------------------------------------------------------------
(* Pages of paginate(): a 204 page and the retry budget of a page *)

\* C26: a page answered with status 204 is taken as the no-value result
\* without parsing a body, as request() takes it, and ends the listing as
\* an empty page does, with no error.
C26_NoContentPage ==
    (op = "paginate" /\ pc = "done" /\ response.status_code = 204) =>
        /\ outcome = StopIteration
        /\ json_calls = 0

\* the retry count of paginate() counts the waits of the page being fetched
\* alone, and a page is attempted at most max_retries + 1 times
PageBudgetOK ==
    op = "paginate" =>
        /\ retries = sleeps
        /\ retries <= max_retries
        /\ attempts <= max_retries + 1
        /\ pc = "send" => attempts = retries
        /\ (pc = "done" /\ auto_retry /\ response.status_code >= 400
               /\ _is_rate_limit_error(response) /\ outcome.error # ValueError) =>
              /\ attempts = max_retries + 1
              /\ yielded = ConcatPages(server, page - 1)

\* C27: the retry count starts at 0 on every page, so each page is attempted
\* up to max_retries + 1 times whatever earlier pages used, and a page whose
\* budget is used up raises RateLimitError after the items of the pages
\* before it were yielded.
C27_BudgetPerPage ==
    /\ PageBudgetOK
    /\ (op = "paginate" /\ pc = "done" /\ auto_retry
           /\ response.status_code >= 400 /\ _is_rate_limit_error(response)
           /\ attempts = max_retries + 1) =>
          /\ IsRaiseOf(outcome, "RateLimitError")
          /\ yielded = ConcatPages(server, page - 1)

----------------------------------------------------------------------------
(* The query mapping of a listing *)

\* C29: paginate() leaves the mapping passed as params as the caller built
\* it: the object kwargs.pop("params", {}) returns is the caller's own, and
\* it has neither a per_page nor a page entry when the call is made, so it
\* has neither while the listing runs and after it ended or failed.
C29_ParamsUnchanged ==
    op = "paginate" => params = NoParams

----------------------------------------------------------------------------
(* Models handed out by the asynchronous facade *)

\* C30: an operation of an Issue or PullRequest bound to an AsyncRepo that
\* returns a model does what it does bound to a Repo: it issues its request
\* with the owner and name of the facade and the number of the receiver, and
\* its result is a model converted from the response.
C30_AsyncBoundOperation ==
    ( /\ caller.cls \in {"Issue", "PullRequest"}
      /\ BoundContext(caller).t = "AsyncRepo"
      /\ caller.result \in ModelClasses ) =>
        LET self == Receiver(caller)
            context == BoundContext(caller)
        IN  /\ sent = [ method |-> caller.verb,
                        path |-> PathOf(caller.path, self, context),
                        json |-> caller.json ]
            /\ (answer # Pending /\ outcome.kind = "return") =>
                  answer = from_dict(caller.result, outcome.value, context)

----------------------------------------------------------------------------
(* Credential resolution: auth.get_token and the token of a new client *)

\* str.strip(): blanks and line ends are taken off both ends
RECURSIVE Strip(_)
Strip(s) ==
    LET Whitespace == {" ", "\n"}
    IN  IF s = <<>> THEN s
        ELSE IF Head(s) \in Whitespace THEN Strip(Tail(s))
        ELSE IF s[Len(s)] \in Whitespace THEN Strip(SubSeq(s, 1, Len(s) - 1))
        ELSE s

\* a variant that reads GITHUB_TOKEN before GH_TOKEN
get_token_from_env_github_first(e) ==
    LET get(h) == IF h.present THEN JStr(h.value) ELSE None
    IN  IF Truthy(e.GITHUB_TOKEN) THEN get(e.GITHUB_TOKEN) ELSE get(e.GH_TOKEN)

\* get_token_from_env: GH_TOKEN or GITHUB_TOKEN, where os.environ.get gives
\* the text of a variable and None when it is not set
get_token_from_env(e) ==
    LET get(h) == IF h.present THEN JStr(h.value) ELSE None
    IN  IF Truthy(e.GH_TOKEN) THEN get(e.GH_TOKEN) ELSE get(e.GITHUB_TOKEN)

\* get_token_from_gh_cli: subprocess.run of `gh auth token`; a missing or
\* unusable binary and a timeout are caught, output that is not text is not
get_token_from_gh_cli(e) ==
    CASE e.gh.kind \in {"FileNotFoundError", "PermissionError", "TimeoutExpired"} ->
            Return(None)
      [] e.gh.kind = "UnicodeDecodeError" -> Raise([type |-> "UnicodeDecodeError"])
      [] OTHER ->
            IF e.gh.returncode = 0 THEN Return(JStr(Strip(e.gh.stdout)))
            ELSE Return(None)

\* get_token_from_hosts_file for the host github.com
get_token_from_hosts_file(e) ==
    IF ~e.HAS_YAML THEN Return(None)
    ELSE IF e.hosts.kind = "missing" THEN Return(None)
    ELSE IF e.hosts.kind \in {"OSError", "YAMLError"} THEN Return(None)
    ELSE IF e.hosts.kind = "UnicodeDecodeError" THEN Raise([type |-> "UnicodeDecodeError"])
    ELSE LET hosts == IF PyTruthy(e.hosts.value) THEN e.hosts.value ELSE EmptyDict
         IN  IF hosts.t # "dict" THEN Raise(AttributeError)
             ELSE LET host_config == Get(hosts, "github.com", EmptyDict)
                  IN  IF host_config.t # "dict" THEN Raise(AttributeError)
                      ELSE Return(Get(host_config, "oauth_token", None))

\* the Authorization header GitHub.__init__ gives the transport for a token
Authorization(token) ==
    IF PyTruthy(token) THEN Hdr(<<"Bearer ">> \o Format(token)) ELSE Absent

\* the environments get_token may run in.  The gh command is not
\* installed, not executable, too slow, prints bytes that are not UTF-8, or
\* runs to completion; hosts.yml is missing, cannot be opened, read as text
\* or parsed, or holds a document
Environs ==
    LET EnvValues == { Absent, Hdr(<<>>), Hdr(<<"e", "1">>), Hdr(<<"e", "2">>) }
        GhStates ==
            { [kind |-> k, returncode |-> 0, stdout |-> <<>>] :
                k \in {"FileNotFoundError", "PermissionError", "TimeoutExpired",
                       "UnicodeDecodeError"} }
            \cup { [kind |-> "completed", returncode |-> 0, stdout |-> out] :
                     out \in { <<>>, <<"\n">>, <<" ", "c", "1", "\n">> } }
            \cup { [kind |-> "completed", returncode |-> 1,
                    stdout |-> <<"c", "1", "\n">>] }
        Host(v) == JDict([k \in {"github.com"} |-> v])
        HostsFiles ==
            { [kind |-> k, value |-> None] :
                k \in {"missing", "OSError", "YAMLError", "UnicodeDecodeError"} }
            \cup { [kind |-> "parsed", value |-> v] :
                     v \in { None,
                             JList(<< JStr(<<"github.com">>) >>),
                             JDict([k \in {"other"} |->
                                       JDict([oauth_token |-> JStr(<<"h", "2">>)])]),
                             Host(None),
                             Host(JStr(<<"h", "1">>)),
                             Host(JDict([user |-> JStr(<<"u">>)])),
                             Host(JDict([oauth_token |-> JStr(<<"h", "1">>)])),
                             Host(JDict([oauth_token |-> JStr(<<>>)])) } }
    IN  [ GH_TOKEN : EnvValues \ {Hdr(<<"e", "2">>)},
          GITHUB_TOKEN : EnvValues \ {Hdr(<<"e", "1">>)},
          gh : GhStates, HAS_YAML : BOOLEAN, hosts : HostsFiles ]

\* get_token() is called in environment e
CallGetToken(e) ==
    /\ pc = "idle"
    /\ op' = "get_token"
    /\ pc' = "env"
    /\ environ' = e
    /\ UNCHANGED << listed, parked, caller, answer, sent, payload, built, scope,
                    closed, propagated, config, response, retries, wait_time,
                    outcome, attempts, sleeps, json_calls, listing, classified >>

\* token = get_token_from_env(); if token: return token
GetTokenEnv ==
    /\ op = "get_token"
    /\ pc = "env"
    /\ IF PyTruthy(get_token_from_env(environ))
       THEN outcome' = Return(get_token_from_env(environ)) /\ pc' = "done"
       ELSE outcome' = outcome /\ pc' = "cli"
    /\ UNCHANGED << outer, config, op, response, retries, wait_time,
                    attempts, sleeps, json_calls, listing, classified >>

\* token = get_token_from_gh_cli(hostname); if token: return token
GetTokenCli ==
    /\ op = "get_token"
    /\ pc = "cli"
    /\ LET r == get_token_from_gh_cli(environ)
       IN  IF r.kind = "raise" \/ PyTruthy(r.value)
           THEN outcome' = r /\ pc' = "done"
           ELSE outcome' = outcome /\ pc' = "hosts"
    /\ UNCHANGED << outer, config, op, response, retries, wait_time,
                    attempts, sleeps, json_calls, listing, classified >>

\* return get_token_from_hosts_file(hostname)
GetTokenHosts ==
    /\ op = "get_token"
    /\ pc = "hosts"
    /\ outcome' = get_token_from_hosts_file(environ)
    /\ pc' = "done"
    /\ UNCHANGED << outer, config, op, response, retries, wait_time,
                    attempts, sleeps, json_calls, listing, classified >>

NextAuth ==
    \/ \E e \in Environs : CallGetToken(e)
    \/ GetTokenEnv
    \/ GetTokenCli
    \/ GetTokenHosts

SpecAuth == Init /\ [][NextAuth]_vars

\* the gh command ran to completion with exit status 0 and printed a token
CliYields(e) ==
    /\ e.gh.kind = "completed"
    /\ e.gh.returncode = 0
    /\ \E i \in 1..Len(e.gh.stdout) : e.gh.stdout[i] \notin {" ", "\n"}

\* C21: get_token asks the environment variables first (GH_TOKEN before
\* GITHUB_TOKEN), then the gh command, then the hosts file; a source is
\* asked only when every source before it gave no token, and the token
\* returned is the one of the first source that has one.
C21_SourceOrder ==
    [][ op = "get_token" =>
          LET envToken == IF Truthy(environ.GH_TOKEN) THEN environ.GH_TOKEN
                          ELSE environ.GITHUB_TOKEN
          IN  /\ pc' = "cli" => (pc = "env" /\ ~Truthy(envToken))
              /\ pc' = "hosts" =>
                    (pc = "cli" /\ ~Truthy(envToken) /\ ~CliYields(environ))
              /\ (pc' = "done" /\ Truthy(envToken)) =>
                    (pc = "env" /\ outcome' = Return(JStr(envToken.value)))
              /\ (pc' = "done" /\ ~Truthy(envToken) /\ CliYields(environ)) =>
                    /\ pc = "cli"
                    /\ outcome'.kind = "return"
                    /\ outcome'.value.t = "str"
                    /\ outcome'.value.v \in
                          { SubSeq(environ.gh.stdout, i, j) :
                              i, j \in 1..Len(environ.gh.stdout) }
                    /\ \A i \in 1..Len(outcome'.value.v) :
                          outcome'.value.v[i] \notin {" ", "\n"}
      ]_vars

\* C21 witness: both variables, the gh command and the hosts file hold a
\* token, and get_token returned the one of GH_TOKEN
C21_Witness ==
    /\ op = "get_token" /\ pc = "done"
    /\ environ.GH_TOKEN = Hdr(<<"e", "1">>)
    /\ environ.GITHUB_TOKEN = Hdr(<<"e", "2">>)
    /\ CliYields(environ)
    /\ environ.HAS_YAML /\ environ.hosts.kind = "parsed"
    /\ get_token_from_hosts_file(environ) = Return(JStr(<<"h", "1">>))
    /\ outcome = Return(JStr(<<"e", "1">>))

\* C22: credential resolution never raises: whatever the gh command and the
\* hosts file are like, get_token returns a token or None, and a client built
\* with a None result has no Authorization header.
C22_NeverRaises ==
    (op = "get_token" /\ pc = "done") =>
        /\ outcome.kind = "return"
        /\ outcome.value.t \in {"None", "str"}
        /\ outcome.value = None => Authorization(outcome.value) = Absent

----------------------------------------------------------------------------
(* client.repo(): the repository facade *)

MaxNameLen == 3

\* the texts handed to repo() as owner and as name
RepoNames == UNION { [1..k -> {"o", "n", "/"}] : k \in 0..MaxNameLen }

\* Repo.__init__ / AsyncRepo.__init__
Repo(c, owner, name) ==
    [ t |-> IF c = "GitHub" THEN "Repo" ELSE "AsyncRepo",
      owner |-> JStr(owner), name |-> JStr(name),
      full_name |-> JStr(owner \o <<"/">> \o name) ]

\* a variant that splits "owner/repo" at its last slash
repo_rsplit(c, owner, name) ==
    IF name = None
    THEN IF \A i \in 1..Len(owner.v) : owner.v[i] # "/"
         THEN Raise(ValueError)
         ELSE LET i == CHOOSE k \in 1..Len(owner.v) :
                           /\ owner.v[k] = "/"
                           /\ \A j \in (k + 1)..Len(owner.v) : owner.v[j] # "/"
              IN  Return(Repo(c, SubSeq(owner.v, 1, i - 1),
                              SubSeq(owner.v, i + 1, Len(owner.v))))
    ELSE Return(Repo(c, owner.v, name.v))

\* GitHub.repo / AsyncGitHub.repo: owner.split("/", 1) when no name is given
repo(c, owner, name) ==
    IF name = None
    THEN IF \A i \in 1..Len(owner.v) : owner.v[i] # "/"
         THEN Raise(ValueError)
         ELSE LET i == CHOOSE k \in 1..Len(owner.v) :
                           /\ owner.v[k] = "/"
                           /\ \A j \in 1..(k - 1) : owner.v[j] # "/"
              IN  Return(Repo(c, SubSeq(owner.v, 1, i - 1),
                              SubSeq(owner.v, i + 1, Len(owner.v))))
    ELSE Return(Repo(c, owner.v, name.v))

\* client.repo(owner, name) or client.repo(owner) is called
CallRepo(owner, name) ==
    /\ pc = "idle"
    /\ caller.cls = "none"
    /\ caller' = [cls |-> client, name |-> "repo", args |-> << owner, name >>]
    /\ answer' = repo(client, owner, name)
    /\ UNCHANGED << environ, listed, parked, sent, payload, built, scope, closed,
                    propagated, config, op, pc, response, retries, wait_time,
                    outcome, attempts, sleeps, json_calls, listing, classified >>

NextRepo ==
    \E owner \in RepoNames,
       name \in {None} \cup { JStr(n) : n \in { m \in RepoNames : Len(m) <= 1 } } :
        CallRepo(JStr(owner), name)

SpecRepo == Init /\ [][NextRepo]_vars

\* C25: repo(owner, name) returns a facade with that owner, that name and
\* full_name owner/name; repo("o/n") is repo("o", "n"), split at the first
\* slash only; repo(s) for s without a slash raises ValueError and returns
\* no facade.
C25_RepoFacade ==
    (caller.cls # "none" /\ caller.name = "repo") =>
        LET owner == caller.args[1].v
            name == caller.args[2]
            kind == IF client = "GitHub" THEN "Repo" ELSE "AsyncRepo"
            HasSlash(s) == \E i \in 1..Len(s) : s[i] = "/"
        IN  /\ name # None =>
                  /\ answer.kind = "return"
                  /\ answer.value.t = kind
                  /\ answer.value.owner = JStr(owner)
                  /\ answer.value.name = name
                  /\ answer.value.full_name = JStr(owner \o <<"/">> \o name.v)
            /\ (name = None /\ HasSlash(owner)) =>
                  /\ answer.kind = "return"
                  /\ answer.value.t = kind
                  /\ ~HasSlash(answer.value.owner.v)
                  /\ answer.value.owner.v \o <<"/">> \o answer.value.name.v = owner
                  /\ answer.value.full_name = JStr(owner)
                  /\ answer = repo(client, answer.value.owner, answer.value.name)
            /\ (name = None /\ ~HasSlash(owner)) => answer = Raise(ValueError)

\* C25 witness: repo("o//") gave the facade of owner "o" and name "/"
C25_Witness ==
    /\ caller.cls = "AsyncGitHub" /\ caller.name = "repo"
    /\ caller.args = << JStr(<<"o", "/", "/">>), None >>
    /\ answer.kind = "return"
    /\ answer.value.t = "AsyncRepo"
    /\ answer.value.owner = JStr(<<"o">>)
    /\ answer.value.name = JStr(<<"/">>)
    /\ answer.value.full_name = JStr(<<"o", "/", "/">>)

----------------------------------------------------------------------------
(* issues.list(): paginate() with the pull requests left out *)

\* the listings of the issues endpoint: each item of a listing is an issue
\* or, with a pull_request entry, a pull request
IssueServers ==
    LET Mark(item, pulls) ==
            IF item.v.id.v \in pulls
            THEN JDict([id |-> item.v.id, pull_request |-> EmptyDict])
            ELSE item
        Ids == 1..(MaxPages * MaxPageItems)
        Pulls == { {}, {1, 2}, { n \in Ids : n % 2 = 1 }, Ids }
    IN  { [ p \in DOMAIN srv |-> [ i \in DOMAIN srv[p] |-> Mark(srv[p][i], pulls) ] ] :
            srv \in Servers, pulls \in Pulls }

\* a variant that passes every item on
ListFilterKeepsPulls ==
    /\ op = "paginate"
    /\ listed.seen < Len(yielded)
    /\ listed' = [ seen |-> listed.seen + 1,
                   out |-> Append(listed.out, yielded[listed.seen + 1]) ]
    /\ UNCHANGED << environ, parked, caller, answer, sent, payload, built, scope,
                    closed, propagated, config, op, pc, response, retries,
                    wait_time, outcome, attempts, sleeps, json_calls, listing,
                    classified >>

\* the body of the for loop of issues.list() for the item paginate() has
\* just yielded: if "pull_request" not in item: yield item
ListFilter ==
    /\ op = "paginate"
    /\ listed.seen < Len(yielded)
    /\ LET item == yielded[listed.seen + 1]
       IN  listed' = [ seen |-> listed.seen + 1,
                       out |-> IF HasKey(item, "pull_request") THEN listed.out
                               ELSE Append(listed.out, item) ]
    /\ UNCHANGED << environ, parked, caller, answer, sent, payload, built, scope,
                    closed, propagated, config, op, pc, response, retries,
                    wait_time, outcome, attempts, sleeps, json_calls, listing,
                    classified >>

\* issues.list() drives paginate() with the default per_page and looks at
\* each item before it asks for the next
NextIssues ==
    \/ \E srv \in IssueServers : CallPaginate(30, srv)
    \/ ConsumerNextStart
    \/ listed.seen = Len(yielded) /\ ConsumerNextItem
    \/ listed.seen = Len(yielded) /\ ConsumerNextPage
    \/ listed.seen = Len(yielded) /\ ConsumerStop
    \/ /\ op = "paginate"
       /\ \E r \in { PageOk(server, params.page),
                     Response(404, Absent, Absent, Absent, NotFoundBody) } :
             PageAttempt(r)
    \/ ListFilter

SpecIssues == Init /\ [][NextIssues]_vars

\* C28: issues.list yields, in order, exactly the items of the paginated
\* stream without a pull_request key; a page of pull requests only yields
\* nothing and the next page is still requested; the listing ends when a raw
\* page is empty, as paginate() ends.
C28_IssuesOnly ==
    op = "paginate" =>
        LET IsIssue(item) == "pull_request" \notin DOMAIN item.v
            k == LeadingPages(server)
        IN  /\ listed.out = SelectSeq(SubSeq(yielded, 1, listed.seen), IsIssue)
            /\ listed.seen \in {Len(yielded) - 1, Len(yielded)}
            /\ (pc = "done" /\ outcome = StopIteration
                   /\ listed.seen = Len(yielded)) =>
                  /\ listed.out = SelectSeq(ConcatPages(server, k), IsIssue)
                  /\ req_page = k + 1
                  /\ ServerPage(server, req_page) = <<>>
                  /\ ok_fetches = k + 1

\* C28 witness: the first page held two pull requests and the second an
\* issue; the listing yielded the issue alone and ended at the empty third
\* page
C28_Witness ==
    /\ op = "paginate" /\ pc = "done" /\ outcome = StopIteration
    /\ Len(server) = 2
    /\ Len(server[1]) = 2
    /\ \A i \in 1..2 : "pull_request" \in DOMAIN server[1][i].v
    /\ listed.seen = 3
    /\ listed.out = << Item(3) >>
    /\ req_page = 3


====
